---------------------------- MODULE Spec2Model ----------------------------
(***************************************************************************)
(* A model of the extraction-and-reconciliation pipeline of job_finder.py: *)
(* the validator (_is_valid_job_data), the deduplicator                    *)
(* (_deduplicate_jobs) and the board orchestrator (search_all_job_boards   *)
(* driving search_job_board).                                              *)
(*                                                                         *)
(* Python strings are sequences of one-character strings, so that strip,   *)
(* lower and the substring test are computed and not assumed.  JSON values *)
(* are records [t, s] tagged with their Python type.                       *)
(***************************************************************************)
EXTENDS Integers, Sequences, FiniteSets, TLC

VARIABLES
    job_data,       \* validator: the candidate handed to _is_valid_job_data
    valid,          \* validator: "idle" before the call, then its outcome
    jobs,           \* deduplicator: the list handed to _deduplicate_jobs
    unique_jobs,    \* deduplicator: the list it returned (<<>> before the call)
    unique_again,   \* deduplicator: the result of deduplicating unique_jobs
    dd_pc,          \* deduplicator: "start", "once", "twice"
    job_boards,     \* search: self.job_boards, the configured sources
    keywords,       \* search: the keywords argument
    search_location, \* search: the location argument
    max_parallel,   \* search: the max_parallel argument
    pc,             \* search: where search_all_job_boards stands
    stealth_i,      \* search: position in stealth_boards of the loop at 538
    batch_i,        \* search: the start of the batch, the loop variable i at 553
    all_jobs,       \* search: the accumulator all_jobs
    task,           \* search: per source name, its search_job_board call
    returned,       \* search: the list search_all_job_boards returned
    any_success,    \* search: some collaborator call answered with success
    log,            \* search: per source name, what its tiers were given and did
    record_cls,     \* record model: the class being constructed
    kwargs,         \* record model: the keyword arguments of the construction
    built,          \* record model: the model constructed, or ValidationError
    connections,    \* scorer: the list of contacts, changed in place by the scorer
    target_job,     \* scorer: the job the contacts are scored against
    scored,         \* scorer: the list _score_connections returned
    found,          \* scorer: the list find_connections_enhanced returned
    linkedin_connections, \* scorer: the list _search_linkedin_connections builds
    sc_pc,          \* scorer: the position of the call, see InitScorer
    url,            \* resolver: the url argument of _resolve_url
    base,           \* resolver: the base_url argument of _resolve_url
    resolved,       \* resolver: Unresolved before the call, then the string _resolve_url returned
    markdown_content, \* markdown tier: the text handed to _extract_from_markdown
    markdown_jobs,  \* markdown tier: the list it returned
    md_pc           \* markdown tier: "start" before the call, then "extracted"

validatorVars == <<job_data, valid>>
dedupVars == <<jobs, unique_jobs, unique_again, dd_pc>>
recordVars == <<record_cls, kwargs, built>>
scorerVars == <<connections, target_job, scored, found, linkedin_connections, sc_pc>>
resolverVars == <<url, base, resolved>>
markdownVars == <<markdown_content, markdown_jobs, md_pc>>
searchVars == <<job_boards, keywords, search_location, max_parallel, pc, stealth_i, batch_i,
                all_jobs, task, returned, any_success>>

\* What the actions of one component leave alone.
notValidatorVars == <<dedupVars, searchVars, log, recordVars, scorerVars,
    resolverVars, markdownVars>>
notDedupVars == <<validatorVars, searchVars, log, recordVars, scorerVars,
    resolverVars, markdownVars>>
traceVars == <<log>>
notSearchVars == <<validatorVars, dedupVars, traceVars, recordVars, scorerVars,
    resolverVars, markdownVars>>
notRecordVars == <<validatorVars, dedupVars, searchVars, traceVars, scorerVars,
    resolverVars, markdownVars>>
notScorerVars == <<validatorVars, dedupVars, searchVars, traceVars, recordVars,
    resolverVars, markdownVars>>
notResolverVars == <<validatorVars, dedupVars, searchVars, traceVars, recordVars, scorerVars,
    markdownVars>>
notMarkdownVars == <<validatorVars, dedupVars, searchVars, traceVars, recordVars, scorerVars,
    resolverVars>>

-----------------------------------------------------------------------------
(* Strings                                                                 *)
(*                                                                         *)
(* A character is a one-character string.  The alphabet of the model is    *)
(* the printable ASCII characters, the whitespace characters below 256 and *)
(* the Latin-1 characters U+00A0 to U+00FF; the characters that have no    *)
(* escape in a string are written as themselves.  A character that a       *)
(* string cannot hold, the grave accent and those beyond U+00FF, is        *)
(* written as the name of its code point.                                  *)

\* The capitals str.lower() changes: A to Z, U+00C0 to U+00DE without U+00D7.
UpperChars ==
    <<"A","B","C","D","E","F","G","H","I","J","K","L","M",
      "N","O","P","Q","R","S","T","U","V","W","X","Y","Z",
      "À","Á","Â","Ã","Ä","Å","Æ","Ç","È","É","Ê","Ë","Ì",
      "Í","Î","Ï","Ð","Ñ","Ò","Ó","Ô","Õ","Ö","Ø","Ù","Ú",
      "Û","Ü","Ý","Þ">>

\* What str.lower() makes of them, in the same order.
LowerChars ==
    <<"a","b","c","d","e","f","g","h","i","j","k","l","m",
      "n","o","p","q","r","s","t","u","v","w","x","y","z",
      "à","á","â","ã","ä","å","æ","ç","è","é","ê","ë","ì",
      "í","î","ï","ð","ñ","ò","ó","ô","õ","ö","ø","ù","ú",
      "û","ü","ý","þ">>

\* The characters str.strip() removes and \s of re matches, of the code
\* points below 256: U+0009 to U+000D, U+001C to U+001F, the space, U+0085
\* and U+00A0.
Whitespace ==
    {"\t", "\n", "", "\f", "\r", "", "", "", "", " ", "", " "}

\* The printable ASCII characters, U+0020 to U+007E in order.
AsciiChars ==
    <<" ","!","\"","#","$","%","&","'","(",")","*","+",",","-",".","/",
      "0","1","2","3","4","5","6","7","8","9",":",";","<","=",">","?",
      "@","A","B","C","D","E","F","G","H","I","J","K","L","M","N","O",
      "P","Q","R","S","T","U","V","W","X","Y","Z","[","\\","]","^","_",
      "U+0060","a","b","c","d","e","f","g","h","i","j","k","l","m","n","o",
      "p","q","r","s","t","u","v","w","x","y","z","{","|","}","~">>

\* The Latin-1 characters U+00A0 to U+00FF in order.
Latin1Chars ==
    <<" ","¡","¢","£","¤","¥","¦","§","¨","©","ª","«","¬","­","®","¯",
      "°","±","²","³","´","µ","¶","·","¸","¹","º","»","¼","½","¾","¿",
      "À","Á","Â","Ã","Ä","Å","Æ","Ç","È","É","Ê","Ë","Ì","Í","Î","Ï",
      "Ð","Ñ","Ò","Ó","Ô","Õ","Ö","×","Ø","Ù","Ú","Û","Ü","Ý","Þ","ß",
      "à","á","â","ã","ä","å","æ","ç","è","é","ê","ë","ì","í","î","ï",
      "ð","ñ","ò","ó","ô","õ","ö","÷","ø","ù","ú","û","ü","ý","þ","ÿ">>

IndexOf(c, chars) == CHOOSE i \in DOMAIN chars : chars[i] = c

\* ord(c) for the characters of the alphabet.
CodePoints ==
    [c \in {AsciiChars[i] : i \in DOMAIN AsciiChars}
            \cup {Latin1Chars[i] : i \in DOMAIN Latin1Chars} \cup Whitespace |->
        CASE \E i \in DOMAIN AsciiChars : AsciiChars[i] = c -> 31 + IndexOf(c, AsciiChars)
          [] \E i \in DOMAIN Latin1Chars : Latin1Chars[i] = c -> 159 + IndexOf(c, Latin1Chars)
          [] c = "\t" -> 9
          [] c = "\n" -> 10
          [] c = "" -> 11
          [] c = "\f" -> 12
          [] c = "\r" -> 13
          [] c = "" -> 28
          [] c = "" -> 29
          [] c = "" -> 30
          [] c = "" -> 31
          [] c = "" -> 133]

\* ord(c)
CodePoint(c) == CodePoints[c]

\* What str.lower() makes of each capital.
Lowered ==
    [c \in {UpperChars[i] : i \in DOMAIN UpperChars} |-> LowerChars[IndexOf(c, UpperChars)]]

LowerChar(c) ==
    IF c \in DOMAIN Lowered THEN Lowered[c]
    ELSE CASE c = "U+0178" -> "ÿ"
           [] c = "U+039C" -> "U+03BC"
           [] OTHER -> c

\* str.upper() of one character: a string, for U+00DF becomes two capitals,
\* and U+00FF and U+00B5 have their capitals outside Latin-1.
UpperChar(c) ==
    CASE \E i \in DOMAIN LowerChars : LowerChars[i] = c
           -> <<UpperChars[IndexOf(c, LowerChars)]>>
      [] c = "ß" -> <<"S", "S">>
      [] c = "ÿ" -> <<"U+0178">>
      [] c = "µ" -> <<"U+039C">>
      [] OTHER -> <<c>>

\* str.lower()
Lower(s) == [i \in DOMAIN s |-> LowerChar(s[i])]

\* str.upper()
RECURSIVE Upper(_)
Upper(s) == IF s = <<>> THEN <<>> ELSE UpperChar(Head(s)) \o Upper(Tail(s))

SetMin(S) == CHOOSE x \in S : \A y \in S : x <= y
SetMax(S) == CHOOSE x \in S : \A y \in S : y <= x

\* str.strip(): drop the leading and the trailing whitespace.
Strip(s) ==
    LET keep == {i \in DOMAIN s : s[i] \notin Whitespace}
    IN  IF keep = {} THEN <<>> ELSE SubSeq(s, SetMin(keep), SetMax(keep))

\* not s.strip()
Blank(s) == \A i \in DOMAIN s : s[i] \in Whitespace

\* needle in hay
Contains(needle, hay) ==
    \E i \in 0..Len(hay) :
        /\ i + Len(needle) <= Len(hay)
        /\ SubSeq(hay, i + 1, i + Len(needle)) = needle

\* hay.startswith(prefix)
StartsWith(hay, prefix) ==
    /\ Len(prefix) <= Len(hay)
    /\ SubSeq(hay, 1, Len(prefix)) = prefix

-----------------------------------------------------------------------------
(* JSON values and candidates                                              *)

\* A JSON value: t is its Python type, s its characters when t = "str".
Str(s) == [t |-> "str", s |-> s]
None == [t |-> "NoneType", s |-> <<>>]

\* A number of type int: n is its value.
IntOf(n) == [t |-> "int", s |-> <<>>, n |-> n]
Num == IntOf(7)
Zero == IntOf(0)

\* True and False.
Bool(b) == [t |-> "bool", s |-> <<>>, b |-> b]

\* A list value: items holds its elements, JSON values themselves.
ListOf(items) == [t |-> "list", items |-> items]

\* The list of the given strings.
StrList(strs) == ListOf([i \in DOMAIN strs |-> Str(strs[i])])

\* A candidate: t is its Python type, f its items when t = "dict" (a function
\* from the keys that are present to JSON values).
Dict(f) == [t |-> "dict", f |-> f]
NotADict(t) == [t |-> t, f |-> <<>>]

HasKey(d, k) == k \in DOMAIN d.f

\* dict.get(key, default)
Get(d, k, default) == IF HasKey(d, k) THEN d.f[k] ELSE default

-----------------------------------------------------------------------------
(* Floats: the IEEE-754 doubles the scorer adds up                         *)

\* A double of magnitude below 16 is a whole number of units of 2^-55 (the
\* doubles from 0.125 up are), written in two limbs: hi * Limb + lo units.
Limb == 268435456

Double(sign, hi, lo) == [sign |-> sign, hi |-> hi, lo |-> lo]

\* The literals 0.0, 0.5, 0.2, 0.3 and 1.0 as Python reads them.
Float_0_0 == Double(0, 0, 0)
Float_0_5 == Double(0, 67108864, 0)
Float_0_2 == Double(0, 26843545, 161061274)
Float_0_3 == Double(0, 40265318, 107374182)
Float_1_0 == Double(0, 134217728, 0)

\* The limbs of a number of units given with an oversized low limb.
Carry(hi, lo) == Double(0, hi + (lo \div Limb), lo % Limb)

\* How many low bits of the units a double of this size cannot hold: 53
\* significant bits are kept.
DroppedBits(hi) ==
    IF hi < 33554432 THEN 0
    ELSE IF hi < 67108864 THEN 1
    ELSE IF hi < 134217728 THEN 2
    ELSE IF hi < 268435456 THEN 3
    ELSE IF hi < 536870912 THEN 4
    ELSE IF hi < 1073741824 THEN 5
    ELSE 6

\* Round to nearest, ties to even.
RoundToDouble(v) ==
    LET q == 2 ^ DroppedBits(v.hi)
        rem == v.lo % q
        kept == v.lo - rem
        odd == (v.lo \div q) % 2 = 1
        up == (2 * rem > q) \/ (2 * rem = q /\ odd)
    IN  Carry(v.hi, IF up THEN kept + q ELSE kept)

\* x + y for doubles that are not negative.
FAdd(x, y) == RoundToDouble(Carry(x.hi + y.hi, x.lo + y.lo))

\* x <= y for doubles that are not negative.
FLe(x, y) == x.hi < y.hi \/ (x.hi = y.hi /\ x.lo <= y.lo)

\* x < y, signs included.
FLess(x, y) ==
    IF x.sign = 1 /\ y.sign = 0 THEN x # Double(1, 0, 0) \/ y # Float_0_0
    ELSE IF x.sign = 0 /\ y.sign = 1 THEN FALSE
    ELSE IF x.sign = 0 THEN ~FLe(y, x)
    ELSE ~FLe(x, y)

\* min(x, y): y is returned only when it is smaller.
FMin(x, y) == IF FLess(y, x) THEN y ELSE x

\* A float value.
Float(x) == [t |-> "float", x |-> x]

\* not v: None, False, a zero, an empty string, list or dict.
Falsy(v) ==
    CASE v.t = "NoneType" -> TRUE
      [] v.t = "bool" -> ~v.b
      [] v.t = "int" -> v.n = 0
      [] v.t = "float" -> v.x.hi = 0 /\ v.x.lo = 0
      [] v.t = "str" -> v.s = <<>>
      [] v.t = "list" -> v.items = <<>>
      [] v.t = "dict" -> DOMAIN v.f = {}
      [] OTHER -> FALSE

\* The magnitude that stands for itself and for every greater whole number
\* whose double is below 2^63.
IntCap == 999999999

\* Stands for every whole number whose double is 2^63 or more and finite.
Past63 == IntCap + 1

\* Stands for every int that has no finite double.
PastDouble == IntCap + 2

\* A double this module has no limbs for and that is no whole number: one
\* of magnitude below 0.125 that is not zero, one of magnitude 15 or more
\* with a fraction, an infinity, a NaN.
NoLimbs == Double(0, -1, -1)

\* A double of magnitude 15 or more that is a whole number: n is its
\* magnitude, IntCap from IntCap up and Past63 from 2^63 up.
Whole(sign, n) == Double(sign, -1, IF n > Past63 THEN Past63 ELSE n)

DigitChars == <<"0","1","2","3","4","5","6","7","8","9">>

IsDigits(s) == \A i \in DOMAIN s : \E k \in DOMAIN DigitChars : DigitChars[k] = s[i]

DigitValue(c) == IndexOf(c, DigitChars) - 1

\* The number the digits write.
RECURSIVE DigitsValue(_, _)
DigitsValue(ds, acc) ==
    IF ds = <<>> THEN acc ELSE DigitsValue(Tail(ds), 10 * acc + DigitValue(Head(ds)))

\* The number the digits write, and cap for every number from cap up; cap
\* is below 10^9.
CappedValue(ds, cap) ==
    LET nonzero == {i \in DOMAIN ds : ds[i] # "0"}
    IN  IF nonzero = {} THEN 0
        ELSE IF Len(ds) - SetMin(nonzero) >= 9 THEN cap
        ELSE LET v == DigitsValue(SubSeq(ds, SetMin(nonzero), Len(ds)), 0)
             IN  IF v > cap THEN cap ELSE v

\* The digits of the fraction 0.d1d2... doubled, without what comes out in
\* front of the point: a digit takes a carry exactly when the digit behind
\* it is 5 or more.
DoubleDigits(ds) ==
    <<>> \o [i \in DOMAIN ds |->
        DigitChars[((2 * DigitValue(ds[i])) % 10)
                   + (IF i < Len(ds) /\ DigitValue(ds[i + 1]) >= 5 THEN 1 ELSE 0) + 1]]

\* The first n binary digits of the fraction 0.d1d2... behind the bits
\* already made, and the decimal digits of what is left behind them.  A
\* doubling gives the bit 1 exactly when the first digit is 5 or more.
RECURSIVE FractionBits(_, _, _)
FractionBits(ds, n, bits) ==
    IF n = 0 THEN [bits |-> bits, rest |-> ds]
    ELSE IF ds = <<>> THEN [bits |-> bits \o [i \in 1..n |-> 0], rest |-> ds]
    ELSE FractionBits(DoubleDigits(ds), n - 1,
                      Append(bits, IF DigitValue(ds[1]) >= 5 THEN 1 ELSE 0))

RECURSIVE BitsValue(_, _)
BitsValue(bits, acc) ==
    IF bits = <<>> THEN acc ELSE BitsValue(Tail(bits), 2 * acc + Head(bits))

\* Half of the least double above zero, 2^-1075: its decimal digits behind
\* the point and 323 zeros (the digits of 5^1075).
HalfLeastDigits ==
    <<"2","4","7","0","3","2","8","2","2","9","2","0","6","2","3","2","7","2","0","8","8","2","8","4","3",
       "9","6","4","3","4","1","1","0","6","8","6","1","8","2","5","2","9","9","0","1","3","0","7","1","6",
       "2","3","8","2","2","1","2","7","9","2","8","4","1","2","5","0","3","3","7","7","5","3","6","3","5",
       "1","0","4","3","7","5","9","3","2","6","4","9","9","1","8","1","8","0","8","1","7","9","9","6","1",
       "8","9","8","9","8","2","8","2","3","4","7","7","2","2","8","5","8","8","6","5","4","6","3","3","2",
       "8","3","5","5","1","7","7","9","6","9","8","9","8","1","9","9","3","8","7","3","9","8","0","0","5",
       "3","9","0","9","3","9","0","6","3","1","5","0","3","5","6","5","9","5","1","5","5","7","0","2","2",
       "6","3","9","2","2","9","0","8","5","8","3","9","2","4","4","9","1","0","5","1","8","4","4","3","5",
       "9","3","1","8","0","2","8","4","9","9","3","6","5","3","6","1","5","2","5","0","0","3","1","9","3",
       "7","0","4","5","7","6","7","8","2","4","9","2","1","9","3","6","5","6","2","3","6","6","9","8","6",
       "3","6","5","8","4","8","0","7","5","7","0","0","1","5","8","5","7","6","9","2","6","9","9","0","3",
       "7","0","6","3","1","1","9","2","8","2","7","9","5","5","8","5","5","1","3","3","2","9","2","7","8",
       "3","4","3","3","8","4","0","9","3","5","1","9","7","8","0","1","5","5","3","1","2","4","6","5","9",
       "7","2","6","3","5","7","9","5","7","4","6","2","2","7","6","6","4","6","5","2","7","2","8","2","7",
       "2","2","0","0","5","6","3","7","4","0","0","6","4","8","5","4","9","9","9","7","7","0","9","6","5",
       "9","9","4","7","0","4","5","4","0","2","0","8","2","8","1","6","6","2","2","6","2","3","7","8","5",
       "7","3","9","3","4","5","0","7","3","6","3","3","9","0","0","7","9","6","7","7","6","1","9","3","0",
       "5","7","7","5","0","6","7","4","0","1","7","6","3","2","4","6","7","3","6","0","0","9","6","8","9",
       "5","1","3","4","0","5","3","5","5","3","7","4","5","8","5","1","6","6","6","1","1","3","4","2","2",
       "3","7","6","6","6","7","8","6","0","4","1","6","2","1","5","9","6","8","0","4","6","1","9","1","4",
       "4","6","7","2","9","1","8","4","0","3","0","0","5","3","0","0","5","7","5","3","0","8","4","9","0",
       "4","8","7","6","5","3","9","1","7","1","1","3","8","6","5","9","1","6","4","6","2","3","9","5","2",
       "4","9","1","2","6","2","3","6","5","3","8","8","1","8","7","9","6","3","6","2","3","9","3","7","3",
       "2","8","0","4","2","3","8","9","1","0","1","8","6","7","2","3","4","8","4","9","7","6","6","8","2",
       "3","5","0","8","9","8","6","3","3","8","8","5","8","7","9","2","5","6","2","8","3","0","2","7","5",
       "5","9","9","5","6","5","7","5","2","4","4","5","5","5","0","7","2","5","5","1","8","9","3","1","3",
       "6","9","0","8","3","6","2","5","4","7","7","9","1","8","6","9","4","8","6","6","7","9","9","4","9",
       "6","8","3","2","4","0","4","9","7","0","5","8","2","1","0","2","8","5","1","3","1","8","5","4","5",
       "1","3","9","6","2","1","3","8","3","7","7","2","2","8","2","6","1","4","5","4","3","7","6","9","3",
       "4","1","2","5","3","2","0","9","8","5","9","1","3","2","7","6","6","7","2","3","6","3","2","8","1",
       "2","5">>

\* 0.a <= 0.b, a and b digits
FractionLeq(a, b) ==
    LET n == IF Len(a) > Len(b) THEN Len(a) ELSE Len(b)
        At(s, i) == IF i <= Len(s) THEN DigitValue(s[i]) ELSE 0
        differ == {i \in 1..n : At(a, i) # At(b, i)}
    IN  differ = {} \/ At(a, SetMin(differ)) < At(b, SetMin(differ))

\* The fraction 0.fp is nearer to zero than to the least double above it,
\* or half way between the two.
RoundsToZero(fp) ==
    LET nonzero == {i \in DOMAIN fp : fp[i] # "0"}
    IN  \/ nonzero = {}
        \/ SetMin(nonzero) > 324
        \/ /\ SetMin(nonzero) = 324
           /\ FractionLeq(SubSeq(fp, 324, Len(fp)), HalfLeastDigits)

\* The digits of a whole number without the zeros in front.
Significant(ds) ==
    LET nonzero == {i \in DOMAIN ds : ds[i] # "0"}
    IN  IF nonzero = {} THEN <<>> ELSE SubSeq(ds, SetMin(nonzero), Len(ds))

\* a <= b for whole numbers written without zeros in front.
DigitsLeq(a, b) == Len(a) < Len(b) \/ (Len(a) = Len(b) /\ FractionLeq(a, b))

\* The digits of half a whole number, what is left over dropped.
Halve(ds) ==
    <<>> \o [i \in DOMAIN ds |->
        DigitChars[((IF i > 1 /\ DigitValue(ds[i - 1]) % 2 = 1 THEN 10 ELSE 0)
                        + DigitValue(ds[i])) \div 2 + 1]]

\* How many binary digits write the whole number.
RECURSIVE BitLength(_)
BitLength(ds) == IF Significant(ds) = <<>> THEN 0 ELSE 1 + BitLength(Halve(ds))

\* 2^1024 - 2^970, half way between the greatest double and 2^1024: from
\* here up a decimal has the double infinity.
InfiniteFromDigits ==
    <<"1","7","9","7","6","9","3","1","3","4","8","6","2","3","1","5","8","0","7","9","3","7","2",
      "8","9","7","1","4","0","5","3","0","3","4","1","5","0","7","9","9","3","4","1","3","2","7",
      "1","0","0","3","7","8","2","6","9","3","6","1","7","3","7","7","8","9","8","0","4","4","4",
      "9","6","8","2","9","2","7","6","4","7","5","0","9","4","6","6","4","9","0","1","7","9","7",
      "7","5","8","7","2","0","7","0","9","6","3","3","0","2","8","6","4","1","6","6","9","2","8",
      "8","7","9","1","0","9","4","6","5","5","5","5","4","7","8","5","1","9","4","0","4","0","2",
      "6","3","0","6","5","7","4","8","8","6","7","1","5","0","5","8","2","0","6","8","1","9","0",
      "8","9","0","2","0","0","0","7","0","8","3","8","3","6","7","6","2","7","3","8","5","4","8",
      "4","5","8","1","7","7","1","1","5","3","1","7","6","4","4","7","5","7","3","0","2","7","0",
      "0","6","9","8","5","5","5","7","1","3","6","6","9","5","9","6","2","2","8","4","2","9","1",
      "4","8","1","9","8","6","0","8","3","4","9","3","6","4","7","5","2","9","2","7","1","9","0",
      "7","4","1","6","8","4","4","4","3","6","5","5","1","0","7","0","4","3","4","2","7","1","1",
      "5","5","9","6","9","9","5","0","8","0","9","3","0","4","2","8","8","0","1","7","7","9","0",
      "4","1","7","4","4","9","7","7","9","2">>

\* 2^63 - 512, half way between 2^63 and the double below it: from here up
\* a whole number has a double of 2^63 or more.
Past63Digits ==
    <<"9","2","2","3","3","7","2","0","3","6","8","5","4","7","7","5","2","9","6">>

\* The magnitude that the digits write, as this module holds it.
Magnitude(ds) ==
    IF DigitsLeq(InfiniteFromDigits, Significant(ds)) THEN PastDouble
    ELSE IF DigitsLeq(Past63Digits, Significant(ds)) THEN Past63
    ELSE CappedValue(ds, IntCap)

\* The double nearest to a decimal ip.fp of magnitude 15 or more, sig the
\* digits of ip without zeros in front: infinity from InfiniteFromDigits
\* up; a whole number from 2^52 up; below that a whole number when the
\* fraction is within half a unit of the last place of 0 or of 1, ties to
\* even, which is towards the whole number on either side.  The unit of
\* the last place is 2^-(half - 1).
LargeToDouble(sign, sig, fp) ==
    LET bitlen == BitLength(sig)
        half == 54 - bitlen
        fb == FractionBits(fp, 54, <<>>)
        left == \/ \E i \in (half + 1)..54 : fb.bits[i] = 1
                \/ \E i \in DOMAIN fb.rest : fb.rest[i] # "0"
        whole == CappedValue(sig, IntCap)
    IN  IF DigitsLeq(InfiniteFromDigits, sig) THEN NoLimbs
        ELSE IF DigitsLeq(Past63Digits, sig) THEN Whole(sign, Past63)
        ELSE IF Len(sig) > 16 THEN Whole(sign, IntCap)
        ELSE IF bitlen >= 53 THEN Whole(sign, IntCap)
        ELSE IF /\ \A i \in 1..(half - 1) : fb.bits[i] = 0
                /\ fb.bits[half] = 0 \/ ~left
             THEN Whole(sign, whole)
        ELSE IF \A i \in 1..half : fb.bits[i] = 1
             THEN Whole(sign, IF whole = IntCap THEN IntCap ELSE whole + 1)
        ELSE NoLimbs

\* The double nearest to the decimal ip.fp, ties to even: 55 binary digits of
\* the fraction make the units, the 56th and what is left decide the
\* rounding.  A decimal below 0.125 has the double 0.125 when its binary
\* digits 4 to 57 are all 1, which puts it within 2^-57 of 0.125.
DecimalToDouble(sign, ip, fp) ==
    LET whole == CappedValue(ip, 15)
        fb == FractionBits(fp, 57, <<>>)
        hi == whole * 134217728 + BitsValue(SubSeq(fb.bits, 1, 27), 0)
        lo == BitsValue(SubSeq(fb.bits, 28, 55), 0)
        guard == fb.bits[56] = 1
        sticky == fb.bits[57] = 1 \/ \E i \in DOMAIN fb.rest : fb.rest[i] # "0"
        q == 2 ^ DroppedBits(hi)
        rem == lo % q
        kept == lo - rem
        odd == (lo \div q) % 2 = 1
        up == IF q = 1 THEN guard /\ (sticky \/ odd)
              ELSE \/ 2 * rem > q
                   \/ 2 * rem = q /\ (guard \/ sticky \/ odd)
        r == Carry(hi, IF up THEN kept + q ELSE kept)
    IN  IF whole = 0 /\ RoundsToZero(fp) THEN Double(sign, 0, 0)
        ELSE IF whole >= 15 THEN LargeToDouble(sign, Significant(ip), fp)
        ELSE IF hi < 16777216
             THEN IF \A i \in 4..57 : fb.bits[i] = 1
                  THEN Double(sign, 16777216, 0) ELSE NoLimbs
        ELSE IF r.hi >= 15 * 134217728 THEN Whole(sign, 15)
        ELSE Double(sign, r.hi, r.lo)

\* The characters the conversion of a string to a number takes off both
\* ends: the white space of Unicode, which has no U+001C to U+001F.
TrimWhitespace == {c \in Whitespace : CodePoint(c) \notin 28..31}

Trim(s) ==
    LET keep == {i \in DOMAIN s : s[i] \notin TrimWhitespace}
    IN  IF keep = {} THEN <<>> ELSE SubSeq(s, SetMin(keep), SetMax(keep))

\* A string without its sign, and the sign: 1 for "-".
Unsigned(s) ==
    IF s # <<>> /\ Head(s) \in {"+", "-"}
    THEN [sign |-> IF Head(s) = "-" THEN 1 ELSE 0, body |-> Tail(s)]
    ELSE [sign |-> 0, body |-> s]

\* The string has underscores that the conversion to a number takes out:
\* one at least, none at an end, no two together.
UnderscoresBetween(s) ==
    /\ s # <<>>
    /\ s[1] # "_"
    /\ s[Len(s)] # "_"
    /\ \E i \in DOMAIN s : s[i] = "_"
    /\ ~\E i \in 1..(Len(s) - 1) : s[i] = "_" /\ s[i + 1] = "_"

WithoutUnderscores(s) == SelectSeq(s, LAMBDA c : c # "_")

\* digits, digits.digits, digits. or .digits
IsDecimal(s) ==
    LET dots == {i \in DOMAIN s : s[i] = "."}
    IN  /\ Cardinality(dots) <= 1
        /\ IsDigits(SelectSeq(s, LAMBDA c : c # "."))
        /\ Len(s) > Cardinality(dots)

\* The digits in front of the point and those behind it.
IntegerPart(s) ==
    IF \E i \in DOMAIN s : s[i] = "."
    THEN SubSeq(s, 1, (CHOOSE i \in DOMAIN s : s[i] = ".") - 1) ELSE s
FractionPart(s) ==
    IF \E i \in DOMAIN s : s[i] = "."
    THEN SubSeq(s, (CHOOSE i \in DOMAIN s : s[i] = ".") + 1, Len(s)) ELSE <<>>

\* One of the words a float is written with.
IsWord(s) ==
    Lower(s) \in { <<"i","n","f">>, <<"n","a","n">>,
                   <<"i","n","f","i","n","i","t","y">> }

\* The places of s where an exponent starts: a decimal in front of the
\* letter, digits with or without a sign behind it.
ExponentPlaces(s) ==
    {e \in DOMAIN s :
        /\ s[e] \in {"e", "E"}
        /\ IsDecimal(SubSeq(s, 1, e - 1))
        /\ LET x == Unsigned(SubSeq(s, e + 1, Len(s))).body
           IN  x # <<>> /\ IsDigits(x)}

\* The decimal ip.fp with its point moved e places to the right, to the
\* left when e is negative.
ShiftPoint(ip, fp, e) ==
    IF e >= 0
    THEN [ip |-> ip \o [i \in 1..e |-> IF i <= Len(fp) THEN fp[i] ELSE "0"],
          fp |-> SubSeq(fp, e + 1, Len(fp))]
    ELSE LET padded == [i \in 1..(-e) |-> "0"] \o ip
             n == Len(padded)
         IN  [ip |-> SubSeq(padded, 1, n + e),
              fp |-> SubSeq(padded, n + e + 1, n) \o fp]

\* The double of a decimal with an exponent at place e.  An exponent is
\* read up to 400 places more than the decimal has digits: beyond that
\* the double is zero or infinite whatever the exponent.
ExponentToDouble(sign, s, e) ==
    LET m == SubSeq(s, 1, e - 1)
        x == Unsigned(SubSeq(s, e + 1, Len(s)))
        places == CappedValue(x.body, Len(m) + 400)
        d == ShiftPoint(IntegerPart(m), FractionPart(m),
                        IF x.sign = 1 THEN -places ELSE places)
    IN  DecimalToDouble(sign, d.ip, d.fp)

Invalid == [t |-> "invalid", s |-> <<>>]

\* The string writes a float as it stands: a sign or none, then a
\* decimal, a decimal with an exponent, or one of the words.
IsFloatText(s) ==
    LET body == Unsigned(s).body
    IN  IsDecimal(body) \/ ExponentPlaces(body) # {} \/ IsWord(body)

\* The double that such a string writes.
FloatOfText(s) ==
    LET u == Unsigned(s)
    IN  IF IsDecimal(u.body)
        THEN DecimalToDouble(u.sign, IntegerPart(u.body), FractionPart(u.body))
        ELSE IF ExponentPlaces(u.body) # {}
        THEN ExponentToDouble(u.sign, u.body, CHOOSE e \in ExponentPlaces(u.body) : TRUE)
        ELSE NoLimbs

\* A string as it is read as a float: with the white space at its ends
\* taken off; when that writes no float, as it is with its underscores
\* taken out.
FloatText(s) ==
    IF IsFloatText(Trim(s)) THEN Trim(s)
    ELSE IF UnderscoresBetween(s) THEN WithoutUnderscores(s)
    ELSE s

\* The float a text writes, or Invalid.
Parsed(t) == IF IsFloatText(t) THEN Float(FloatOfText(t)) ELSE Invalid

\* A value as a field annotated Optional[float] takes it: None and a float
\* as they are, a bool and an int as the float of the same value, an int
\* without a finite double not at all, a string
\* that writes a number as that number, and nothing else.  A string is read
\* with the white space at its ends taken off; when that fails it is read
\* as it is with its underscores taken out.
AsOptionalFloat(v) ==
    CASE v.t \in {"NoneType", "float"} -> v
      [] v.t = "bool" -> Float(IF v.b THEN Float_1_0 ELSE Float_0_0)
      [] v.t = "int" ->
            IF v.n > -15 /\ v.n < 15
            THEN Float(Double(IF v.n < 0 THEN 1 ELSE 0,
                              (IF v.n < 0 THEN -v.n ELSE v.n) * 134217728, 0))
            ELSE IF v.n <= -PastDouble \/ v.n >= PastDouble THEN Invalid
            ELSE Float(Whole(IF v.n < 0 THEN 1 ELSE 0, IF v.n < 0 THEN -v.n ELSE v.n))
      [] v.t = "str" ->
            Parsed(FloatText(v.s))
      [] OTHER -> Invalid

\* The string writes an int as it stands: a sign or none, then digits.
IsIntText(s) ==
    LET body == Unsigned(s).body
    IN  body # <<>> /\ IsDigits(body)

\* The int that such a string writes.
IntOfText(s) ==
    LET u == Unsigned(s)
    IN  IntOf((IF u.sign = 1 THEN -1 ELSE 1) * Magnitude(u.body))

\* No string: the cleaning of a string has failed.
NoText == <<"U+0000">>

\* s from its first digit that is no zero or from its minus, zeros and
\* underscores in front of it passed over; a zero is kept in front of a
\* point, and the last character is kept when all are passed over.  NoText
\* when s does not begin with a digit, or when something else than a
\* digit, a minus or a point ends the zeros.
StripLeadingZeros(s) ==
    IF s = <<>> THEN NoText
    ELSE IF s[1] # "0" THEN (IF IsDigits(<<s[1]>>) THEN s ELSE NoText)
    ELSE LET stop == {i \in 2..Len(s) : s[i] \notin {"0", "_"}}
             at == SetMin(stop)
         IN  IF stop = {} THEN SubSeq(s, Len(s), Len(s))
             ELSE IF s[at] = "." THEN SubSeq(s, at - 1, Len(s))
             ELSE IF s[at] = "-" \/ IsDigits(<<s[at]>>) THEN SubSeq(s, at, Len(s))
             ELSE NoText

\* s without a point and the zeros behind it, when one zero or more and
\* nothing else stands behind the first point.
StripDecimalZeros(s) ==
    LET dots == {i \in DOMAIN s : s[i] = "."}
        at == SetMin(dots)
    IN  IF /\ dots # {}
           /\ at < Len(s)
           /\ \A i \in (at + 1)..Len(s) : s[i] = "0"
        THEN SubSeq(s, 1, at - 1)
        ELSE s

\* A string that does not write an int as it stands, made ready to be read
\* again: a plus in front is dropped, a minus is set aside and put back,
\* two signs are refused; then the zeros in front, the zeros behind the
\* point and the underscores are taken off.  NoText when nothing of this
\* changed the string.
CleanIntText(s) ==
    LET plus == s # <<>> /\ s[1] = "+"
        s1 == IF plus THEN Tail(s) ELSE s
        minus == s1 # <<>> /\ s1[1] = "-"
        s2 == IF minus THEN Tail(s1) ELSE s1
        z == StripLeadingZeros(s2)
        d == StripDecimalZeros(z)
        sign == IF minus THEN <<"-">> ELSE <<>>
    IN  IF plus /\ minus THEN NoText
        ELSE IF minus /\ s2 # <<>> /\ s2[1] \in {"-", "+"} THEN NoText
        ELSE IF z = NoText THEN NoText
        ELSE IF UnderscoresBetween(d) THEN sign \o WithoutUnderscores(d)
        ELSE IF Len(d) = Len(s) THEN NoText
        ELSE sign \o d

\* The most characters of a text that is read as an int.
IntTextLimit == 4300

\* The int a text writes, or Invalid.
ParsedInt(t) ==
    IF Len(t) <= IntTextLimit /\ IsIntText(t) THEN IntOfText(t) ELSE Invalid

\* A value as a field annotated Optional[int] takes it: None and an int as
\* they are, a bool as 0 or 1, a float that is a whole number below 2^63
\* in magnitude as the int of the same value, a string that writes an int,
\* as it stands or cleaned, as that int, and nothing else.  A string is
\* read with the white space at its ends taken off.
AsOptionalInt(v) ==
    CASE v.t \in {"NoneType", "int"} -> v
      [] v.t = "bool" -> IntOf(IF v.b THEN 1 ELSE 0)
      [] v.t = "float" ->
            IF v.x.hi = -1
            THEN IF v.x.lo = -1 \/ v.x.lo >= Past63 THEN Invalid
                 ELSE IntOf((IF v.x.sign = 1 THEN -1 ELSE 1) * v.x.lo)
            ELSE IF v.x.lo = 0 /\ v.x.hi % 134217728 = 0
            THEN IntOf((IF v.x.sign = 1 THEN -1 ELSE 1) * (v.x.hi \div 134217728))
            ELSE Invalid
      [] v.t = "str" ->
            LET Read(direct, cleaned) == IF direct # Invalid THEN direct ELSE cleaned
            IN  Read(ParsedInt(Trim(v.s)), ParsedInt(CleanIntText(Trim(v.s))))
      [] OTHER -> Invalid

-----------------------------------------------------------------------------
(* Record model: src/job_finder.py, the construction of JobListing and    *)
(* of ContactPerson from keyword arguments, as pydantic validates them     *)

RequiredFields == {"job_title", "company_name", "location", "job_description"}

\* The fields of JobListing annotated Optional[str] = Field(None).
OptionalFields ==
    {"application_url", "posted_date", "salary_range", "job_type",
     "experience_level", "remote_option", "source_url", "source_site"}

\* Where \s* stops when it starts at position i of v.
RECURSIVE SkipWhitespace(_, _)
SkipWhitespace(v, i) ==
    IF i <= Len(v) /\ v[i] \in Whitespace THEN SkipWhitespace(v, i + 1) ELSE i

\* re.split(r'[,;]\s*', v): the pieces between the matches, the piece that
\* began at start being scanned at position i.
RECURSIVE re_split_from(_, _, _)
re_split_from(v, start, i) ==
    IF i > Len(v) THEN << SubSeq(v, start, Len(v)) >>
    ELSE IF v[i] \in {",", ";"}
         THEN LET j == SkipWhitespace(v, i + 1)
              IN  << SubSeq(v, start, i - 1) >> \o re_split_from(v, j, j)
         ELSE re_split_from(v, start, i + 1)

\* [x.strip() for x in pieces if x.strip()]
RECURSIVE StripAndDrop(_)
StripAndDrop(pieces) ==
    IF pieces = <<>> THEN <<>>
    ELSE LET x == Strip(Head(pieces))
         IN  (IF x = <<>> THEN <<>> ELSE <<x>>) \o StripAndDrop(Tail(pieces))

\* The parser that splits at commas only.
parse_skills_commas_only(v) ==
    IF v.t = "str"
    THEN LET RECURSIVE AtCommas(_, _, _)
             AtCommas(w, start, i) ==
                 IF i > Len(w) THEN << SubSeq(w, start, Len(w)) >>
                 ELSE IF w[i] = ","
                      THEN << SubSeq(w, start, i - 1) >> \o AtCommas(w, i + 1, i + 1)
                      ELSE AtCommas(w, start, i + 1)
         IN  StrList(StripAndDrop(AtCommas(v.s, 1, 1)))
    ELSE IF Falsy(v) THEN ListOf(<<>>) ELSE v

\* parse_skills(cls, v), the 'before' validator of required_skills.
\* return v or []: every value that is not a string and is false (None, 0,
\* False, 0.0, an empty list or dict) gives [], every other value is kept.
parse_skills(v) ==
    IF v.t = "str" THEN StrList(StripAndDrop(re_split_from(v.s, 1, 1)))
    ELSE IF Falsy(v) THEN ListOf(<<>>) ELSE v

\* parse_benefits(cls, v), the 'before' validator of benefits.
parse_benefits(v) ==
    IF v.t = "str" THEN StrList(StripAndDrop(re_split_from(v.s, 1, 1)))
    ELSE IF Falsy(v) THEN ListOf(<<>>) ELSE v

ValidationError == [status |-> "ValidationError"]

NotConstructed == [status |-> "idle"]

\* A field annotated str = Field(...): present and a str.  No length is
\* asked for.
RequiredStr(kw, k) == HasKey(kw, k) /\ kw.f[k].t = "str"

\* A field annotated Optional[str] = Field(None): absent, None or a str.
OptionalStr(kw, k) == HasKey(kw, k) => kw.f[k].t \in {"str", "NoneType"}

\* A value annotated List[str]: a list, each element of it a str.
IsStrList(v) == v.t = "list" /\ \A i \in DOMAIN v.items : v.items[i].t = "str"

\* JobListing(**kw): the model, or ValidationError.  Every field the
\* keyword arguments carry is validated, a keyword that names no field is
\* ignored.  A list field has a 'before' validator and default_factory=list:
\* the validator runs on a value that was passed, and what it returns has to
\* be a list of strings.
JobListing_init(kw) ==
    LET skills == IF HasKey(kw, "required_skills")
                  THEN parse_skills(kw.f["required_skills"]) ELSE ListOf(<<>>)
        benefits == IF HasKey(kw, "benefits")
                    THEN parse_benefits(kw.f["benefits"]) ELSE ListOf(<<>>)
    IN  IF /\ \A k \in RequiredFields : RequiredStr(kw, k)
           /\ \A k \in OptionalFields : OptionalStr(kw, k)
           /\ IsStrList(skills)
           /\ IsStrList(benefits)
        THEN [status |-> "JobListing",
              job_title |-> kw.f["job_title"].s,
              company_name |-> kw.f["company_name"].s,
              location |-> kw.f["location"].s,
              job_description |-> kw.f["job_description"].s,
              required_skills |-> [i \in DOMAIN skills.items |-> skills.items[i].s],
              benefits |-> [i \in DOMAIN benefits.items |-> benefits.items[i].s],
              optional |-> [k \in OptionalFields |-> Get(kw, k, None)]]
        ELSE ValidationError

\* The fields of ContactPerson annotated Optional[str] = None.
ContactOptionalFields ==
    {"title", "company", "linkedin_url", "github_url", "twitter_url", "email",
     "connection_path", "relevance_reason"}

\* ContactPerson(**kw): the model, or ValidationError.  relevance_score is
\* Optional[float] and mutual_connections Optional[int]: a value of another
\* type that writes such a number is converted.
ContactPerson_init(kw) ==
    LET score == AsOptionalFloat(Get(kw, "relevance_score", None))
        mutual == AsOptionalInt(Get(kw, "mutual_connections", None))
    IN  IF /\ RequiredStr(kw, "name")
           /\ \A k \in ContactOptionalFields : OptionalStr(kw, k)
           /\ score # Invalid
           /\ mutual # Invalid
        THEN [status |-> "ContactPerson",
              name |-> kw.f["name"].s,
              title |-> Get(kw, "title", None),
              company |-> Get(kw, "company", None),
              linkedin_url |-> Get(kw, "linkedin_url", None),
              github_url |-> Get(kw, "github_url", None),
              twitter_url |-> Get(kw, "twitter_url", None),
              email |-> Get(kw, "email", None),
              connection_path |-> Get(kw, "connection_path", None),
              relevance_reason |-> Get(kw, "relevance_reason", None),
              relevance_score |-> score,
              mutual_connections |-> mutual]
        ELSE ValidationError

-----------------------------------------------------------------------------
(* Validator: src/job_finder.py, _is_valid_job_data                        *)

\* The list inside _is_valid_job_data.
spam_indicators ==
    << <<"s","i","m","i","l","a","r"," ","j","o","b","s">>,
       <<"r","e","l","a","t","e","d"," ","j","o","b","s">>,
       <<"m","o","r","e"," ","j","o","b","s">>,
       <<"v","i","e","w"," ","a","l","l">>,
       <<"j","o","b"," ","a","l","e","r","t">>,
       <<"e","m","a","i","l"," ","a","l","e","r","t">>,
       <<"s","a","v","e"," ","s","e","a","r","c","h">>,
       <<"j","o","b"," ","s","e","a","r","c","h">>,
       <<"s","i","g","n"," ","u","p">>,
       <<"c","r","e","a","t","e"," ","a","c","c","o","u","n","t">>,
       <<"l","o","g","i","n">> >>

\* FILTER_CONFIG["spam_keywords"] of config.py: the configured list.
spam_keywords ==
    << <<"s","i","m","i","l","a","r"," ","j","o","b","s">>,
       <<"r","e","l","a","t","e","d"," ","j","o","b","s">>,
       <<"m","o","r","e"," ","j","o","b","s">>,
       <<"v","i","e","w"," ","a","l","l">>,
       <<"j","o","b"," ","a","l","e","r","t">>,
       <<"e","m","a","i","l"," ","a","l","e","r","t">>,
       <<"s","a","v","e"," ","s","e","a","r","c","h">>,
       <<"j","o","b"," ","s","e","a","r","c","h">>,
       <<"s","i","g","n"," ","u","p">>,
       <<"c","r","e","a","t","e"," ","a","c","c","o","u","n","t">>,
       <<"l","o","g","i","n">>,
       <<"r","e","g","i","s","t","e","r">> >>

\* The validator with location made a required field as well.
_is_valid_job_data_location_required(d) ==
    IF d.t # "dict" THEN "False"
    ELSE
      LET t == Get(d, "job_title", Str(<<>>))
          c == Get(d, "company_name", Str(<<>>))
          l == Get(d, "location", Str(<<>>))
      IN  IF t.t # "str" \/ c.t # "str" \/ l.t # "str" THEN "AttributeError"
          ELSE IF Strip(t.s) = <<>> \/ Strip(c.s) = <<>> \/ Strip(l.s) = <<>>
               THEN "False"
          ELSE IF \E i \in DOMAIN spam_indicators :
                      Contains(spam_indicators[i], Lower(Strip(t.s)))
               THEN "False"
               ELSE "True"

\* _is_valid_job_data(job_data): "True", "False", or "AttributeError" when
\* .strip() is called on a value that is not a str (None, a number).
_is_valid_job_data(d) ==
    IF d.t # "dict" THEN "False"
    ELSE
      LET t == Get(d, "job_title", Str(<<>>))
          c == Get(d, "company_name", Str(<<>>))
      IN  IF t.t # "str" THEN "AttributeError"
          ELSE IF c.t # "str" THEN "AttributeError"
          ELSE
            LET title == Strip(t.s)
                company == Strip(c.s)
                title_lower == Lower(title)
            IN  IF title = <<>> \/ company = <<>> THEN "False"
                ELSE IF \E i \in DOMAIN spam_indicators :
                            Contains(spam_indicators[i], title_lower)
                     THEN "False"
                     ELSE "True"


\* Candidates the validator is run on.  Absent marks a key the mapping does
\* not have.
Absent == [t |-> "absent", s |-> <<>>]

\* The mapping with the given job_title, company_name and location items.
Candidate(title, company, location) ==
    LET items == [k \in {"job_title", "company_name", "location"} |->
                    CASE k = "job_title" -> title
                      [] k = "company_name" -> company
                      [] OTHER -> location]
    IN  Dict([k \in {k \in DOMAIN items : items[k] # Absent} |-> items[k]])

TitleCores ==
    {spam_keywords[i] : i \in DOMAIN spam_keywords}
      \cup { <<>>,
             <<"n","u","r","s","e">>,
             <<"s","o","f","t","w","a","r","e"," ","e","n","g","i","n","e","e","r">>,
             <<"r","e","g","i","s","t","e","r","e","d"," ","n","u","r","s","e">> }

\* Each core as it is, upper-cased, padded with whitespace (the blank and
\* the tabulator, the carriage return and U+00A0), and inside a longer
\* title.
TitleStrings ==
    UNION { { c, Upper(c), <<" ">> \o c \o <<"\t">>, <<"\r">> \o c \o <<" ">>,
              <<"m","y"," ">> \o c \o <<"s">> }
            : c \in TitleCores }

TitleValues == {Absent, None, Num} \cup {Str(s) : s \in TitleStrings}

CompanyValues ==
    {Absent, None, Num, Str(<<>>), Str(<<" ","\t">>), Str(<<"\r">>),
     Str(<<"A","c","m","e">>)}

LocationValues == {Absent, None, Str(<<"N","Y","C">>)}

Candidates ==
    {Candidate(t, c, l) : t \in TitleValues, c \in CompanyValues, l \in LocationValues}
      \cup {NotADict("list"), NotADict("str"), NotADict("NoneType"), NotADict("int")}

IdleValidator == job_data = NotADict("NoneType") /\ valid = "idle"

InitValidator == job_data \in Candidates /\ valid = "idle"

\* The call _is_valid_job_data(job_data).
Validate ==
    /\ valid = "idle"
    /\ valid' = _is_valid_job_data(job_data)
    /\ UNCHANGED <<job_data, notValidatorVars>>

-----------------------------------------------------------------------------
(* Records: src/job_finder.py, class JobListing                            *)

\* The default of source_url and of source_site, Field(None).
NoSource == None

\* A JobListing object built without source_url and source_site.  oid is
\* the identity of the Python object; a source field holds None or a str.
JobListing(oid, job_title, company_name, location, job_description) ==
    [oid |-> oid, job_title |-> job_title, company_name |-> company_name,
     location |-> location, job_description |-> job_description,
     source_site |-> NoSource, source_url |-> NoSource]

-----------------------------------------------------------------------------
(* Deduplicator: src/job_finder.py, _deduplicate_jobs                      *)

\* The key without the location.
JobKey_title_company_only(job) ==
    << Strip(Lower(job.job_title)), Strip(Lower(job.company_name)), <<>> >>

\* The key without .lower().
JobKey_case_sensitive(job) ==
    << Strip(job.job_title),
       Strip(job.company_name),
       IF job.location # <<>> THEN Strip(job.location) ELSE <<>> >>

\* The key of a job: title, company and location, lower-cased then stripped;
\* an empty location gives "".
JobKey(job) ==
    << Strip(Lower(job.job_title)),
       Strip(Lower(job.company_name)),
       IF job.location # <<>> THEN Strip(Lower(job.location)) ELSE <<>> >>

\* The loop with a key forgotten again when it is met a second time.
RECURSIVE DedupLoop_forgets_on_hit(_, _, _, _)
DedupLoop_forgets_on_hit(js, i, seen, unique) ==
    IF i > Len(js) THEN unique
    ELSE LET key == JobKey(js[i])
         IN  IF key \notin seen
             THEN DedupLoop_forgets_on_hit(js, i + 1, seen \cup {key},
                                           Append(unique, js[i]))
             ELSE DedupLoop_forgets_on_hit(js, i + 1, seen \ {key}, unique)

\* The loop of _deduplicate_jobs from job i on, with the keys seen and the
\* jobs kept so far.
RECURSIVE DedupLoop(_, _, _, _)
DedupLoop(js, i, seen, unique) ==
    IF i > Len(js) THEN unique
    ELSE LET key == JobKey(js[i])
         IN  IF key \notin seen
             THEN DedupLoop(js, i + 1, seen \cup {key}, Append(unique, js[i]))
             ELSE DedupLoop(js, i + 1, seen, unique)

\* _deduplicate_jobs, but the list is returned as it came.
_deduplicate_jobs_returns_input(js) == js

\* seen = set(); unique_jobs = []; the loop; return unique_jobs
_deduplicate_jobs(js) == DedupLoop(js, 1, {}, <<>>)

\* The longest list the deduplicator is run on.
MaxJobs == 3

DedupTitles == { <<"D","e","v">>, <<"Q","A">> }
DedupCompanies == { <<"A","c","m","e">>, <<"B","e","t","a">> }
DedupLocations == { <<>>, <<"N","y","c">> }

\* A string as another source writes it: upper-cased, inside whitespace.
Sloppy(s) == <<" ">> \o Upper(s) \o <<"\t">>

\* The job at position i of an input list, written plainly or sloppily; its
\* description differs from its neighbours'.
DedupJob(i, t, c, l, sloppy) ==
    JobListing(i,
               IF sloppy THEN Sloppy(t) ELSE t,
               IF sloppy THEN Sloppy(c) ELSE c,
               IF sloppy THEN Sloppy(l) ELSE l,
               IF i % 2 = 1 THEN <<"o","d","d">> ELSE <<"e","v","e","n">>)

IdleDedup ==
    /\ jobs = <<>>
    /\ unique_jobs = <<>>
    /\ unique_again = <<>>
    /\ dd_pc = "idle"

InitDedup ==
    /\ jobs = <<>>
    /\ unique_jobs = <<>>
    /\ unique_again = <<>>
    /\ dd_pc = "start"

\* The caller puts one more job on the list it will hand over.
AddJob ==
    /\ dd_pc = "start"
    /\ Len(jobs) < MaxJobs
    /\ \E t \in DedupTitles, c \in DedupCompanies, l \in DedupLocations,
          sloppy \in BOOLEAN :
           jobs' = Append(jobs, DedupJob(Len(jobs) + 1, t, c, l, sloppy))
    /\ UNCHANGED <<unique_jobs, unique_again, dd_pc, notDedupVars>>

\* unique_jobs = self._deduplicate_jobs(jobs)
DedupOnce ==
    /\ dd_pc = "start"
    /\ unique_jobs' = _deduplicate_jobs(jobs)
    /\ dd_pc' = "once"
    /\ UNCHANGED <<jobs, unique_again, notDedupVars>>

\* The deduplicator run on its own result.
DedupAgain ==
    /\ dd_pc = "once"
    /\ unique_again' = _deduplicate_jobs(unique_jobs)
    /\ dd_pc' = "twice"
    /\ UNCHANGED <<jobs, unique_jobs, notDedupVars>>

-----------------------------------------------------------------------------
(* Extraction pipeline: src/job_finder.py, _extract_with_llm,              *)
(* _fallback_extraction, _extract_from_markdown                            *)

\* JobListing(**job_data) passes pydantic's validation, every item of the
\* mapping being a keyword argument.
Constructible(d) == JobListing_init(d).status = "JobListing"

\* job = JobListing(**job_data): the source fields are those of the
\* mapping, None when it has none.
Construct(d, oid) ==
    [JobListing(oid, d.f["job_title"].s, d.f["company_name"].s,
                d.f["location"].s, d.f["job_description"].s)
        EXCEPT !.source_site = Get(d, "source_site", NoSource),
               !.source_url = Get(d, "source_url", NoSource)]

NotSpecified == <<"N","o","t"," ","s","p","e","c","i","f","i","e","d">>

\* RepairLocation, but the location is left as it is, None or missing.
RepairLocation_leaves_none(d) ==
    IF Get(d, "location", None) = None
    THEN Dict([k \in DOMAIN d.f \cup {"location"} |->
                 IF k = "location" THEN Str(<<"N","o","n","e">>) ELSE d.f[k]])
    ELSE d

\* if job_data.get('location') is None: job_data['location'] = "Not specified"
RepairLocation(d) ==
    IF Get(d, "location", None) = None
    THEN Dict([k \in DOMAIN d.f \cup {"location"} |->
                 IF k = "location" THEN Str(NotSpecified) ELSE d.f[k]])
    ELSE d

\* The patterns of _fallback_extraction.
job_patterns ==
    << <<"s","o","f","t","w","a","r","e"," ","e","n","g","i","n","e","e","r">>,
       <<"d","a","t","a"," ","s","c","i","e","n","t","i","s","t">>,
       <<"p","r","o","d","u","c","t"," ","m","a","n","a","g","e","r">>,
       <<"d","e","v","e","l","o","p","e","r">>,
       <<"e","n","g","i","n","e","e","r">>,
       <<"m","a","n","a","g","e","r">>,
       <<"a","n","a","l","y","s","t">> >>

\* The length _fallback_extraction cuts the description to.
DescriptionLimit == 200

\* content[:200] + "..." if len(content) > 200 else content
Excerpt(content) ==
    IF Len(content) > DescriptionLimit
    THEN SubSeq(content, 1, DescriptionLimit) \o <<".",".",".">>
    ELSE content

\* _fallback_extraction, but the patterns are searched with their case.
_fallback_extraction_case_sensitive(content, site) ==
    IF \E i \in DOMAIN job_patterns : Contains(job_patterns[i], content)
    THEN << JobListing(<<site.name, 1>>,
                       <<"J","o","b"," ","f","o","u","n","d"," ","o","n"," ">> \o site.chars,
                       <<"C","o","m","p","a","n","y"," ","n","a","m","e"," ","n","o","t"," ",
                         "e","x","t","r","a","c","t","e","d">>,
                       <<"L","o","c","a","t","i","o","n"," ","n","o","t"," ",
                         "s","p","e","c","i","f","i","e","d">>,
                       Excerpt(content)) >>
    ELSE <<>>

\* _fallback_extraction(content, site_name): one synthetic job when a
\* pattern occurs in the content (re.IGNORECASE), none otherwise.
_fallback_extraction(content, site) ==
    IF \E i \in DOMAIN job_patterns : Contains(job_patterns[i], Lower(content))
    THEN << JobListing(<<site.name, 1>>,
                       <<"J","o","b"," ","f","o","u","n","d"," ","o","n"," ">> \o site.chars,
                       <<"C","o","m","p","a","n","y"," ","n","a","m","e"," ","n","o","t"," ",
                         "e","x","t","r","a","c","t","e","d">>,
                       <<"L","o","c","a","t","i","o","n"," ","n","o","t"," ",
                         "s","p","e","c","i","f","i","e","d">>,
                       Excerpt(content)) >>
    ELSE <<>>

\* The loop of _extract_with_llm over the elements of a JSON array, from
\* element i on.  An exception of the validator leaves the loop.
RECURSIVE LlmLoop(_, _, _, _)
LlmLoop(items, i, out, site) ==
    IF i > Len(items) THEN [raised |-> FALSE, jobs |-> out]
    ELSE LET v == _is_valid_job_data(items[i])
         IN  IF v = "AttributeError" THEN [raised |-> TRUE, jobs |-> <<>>]
             ELSE IF v = "True" /\ Constructible(RepairLocation(items[i]))
             THEN LlmLoop(items, i + 1,
                          Append(out, Construct(RepairLocation(items[i]),
                                                <<site.name, Len(out) + 1>>)),
                          site)
             ELSE LlmLoop(items, i + 1, out, site)

\* What the rendering collaborator does when tier 1 calls it.
\*   kind = "setup_error": building the extraction strategy or the cloned
\*                         configuration raises, before the try block
\*   kind = "arun_error":  crawler.arun raises
\*   kind = "result":      crawler.arun returns success and content
\* The content is None ("none"), a text that json.loads rejects with
\* JSONDecodeError ("text", s its characters), a text that is no JSON and on
\* which json.loads raises RecursionError ("text_too_deep"), a JSON
\* document on which json.loads raises ValueError for the digits of an
\* integer ("json_too_long"), or a JSON array, object, string or other
\* scalar ("json_list", "json_dict", "json_str", "json_other", items the
\* elements or the object, s the characters that the JSON string writes).
Outcome(kind, success, content_kind, s, items) ==
    [kind |-> kind, success |-> success,
     content |-> [kind |-> content_kind, s |-> s, items |-> items]]

\* result.extracted_content is truthy.
Truthy(content) ==
    /\ content.kind # "none"
    /\ content.kind \in {"text", "text_too_deep", "json_too_long"} => content.s # <<>>

\* _extract_with_llm for one outcome of the collaborator: the jobs returned,
\* or raised when the exception leaves the function.  Only JSONDecodeError
\* leads to _fallback_extraction; any other exception of json.loads is
\* caught by the outer except, which returns [].
_extract_with_llm(o, site) ==
    IF o.kind = "setup_error" THEN [raised |-> TRUE, tier3 |-> FALSE, jobs |-> <<>>]
    ELSE IF o.kind = "arun_error" THEN [raised |-> FALSE, tier3 |-> FALSE, jobs |-> <<>>]
    ELSE IF ~(o.success /\ Truthy(o.content))
         THEN [raised |-> FALSE, tier3 |-> FALSE, jobs |-> <<>>]
    ELSE IF o.content.kind \in {"text", "text_too_deep", "json_too_long"}
              /\ Blank(o.content.s)
         THEN [raised |-> FALSE, tier3 |-> FALSE, jobs |-> <<>>]
    ELSE IF o.content.kind = "text"
         THEN [raised |-> FALSE, tier3 |-> TRUE,
               jobs |-> _fallback_extraction(o.content.s, site)]
    ELSE IF o.content.kind \in {"text_too_deep", "json_too_long"}
         THEN [raised |-> FALSE, tier3 |-> FALSE, jobs |-> <<>>]
    ELSE IF o.content.kind \in {"json_list", "json_dict"}
         THEN [raised |-> FALSE, tier3 |-> FALSE,
               jobs |-> LlmLoop(o.content.items, 1, <<>>, site).jobs]
    ELSE [raised |-> FALSE, tier3 |-> FALSE, jobs |-> <<>>]

\* The role keywords of _extract_from_markdown.
role_keywords ==
    << <<"e","n","g","i","n","e","e","r">>,
       <<"d","e","v","e","l","o","p","e","r">>,
       <<"m","a","n","a","g","e","r">>,
       <<"a","n","a","l","y","s","t">>,
       <<"s","p","e","c","i","a","l","i","s","t">> >>

\* LooksLikeLink, but with the case of the line ignored.
LooksLikeLink_any_case(line) ==
    \/ StartsWith(Lower(line), <<"h","t","t","p">>)
    \/ StartsWith(Lower(line), <<"w","w","w">>)
    \/ StartsWith(Lower(line), <<"a","p","p","l","y">>)

\* line.startswith(('http', 'www', 'apply'))
LooksLikeLink(line) ==
    \/ StartsWith(line, <<"h","t","t","p">>)
    \/ StartsWith(line, <<"w","w","w">>)
    \/ StartsWith(line, <<"a","p","p","l","y">>)

NoJob == [job_title |-> <<>>, company_name |-> <<>>]

\* A block of _extract_from_markdown turned into a JobListing.
MarkdownJob(current_job, description, oid) ==
    JobListing(oid, current_job.job_title, current_job.company_name,
               NotSpecified, description)

\* The loop of _extract_from_markdown over the lines, from line i on, with
\* the block in progress and the jobs emitted so far; then the last block.
RECURSIVE MarkdownLoop(_, _, _, _, _)
MarkdownLoop(lines, i, current_job, out, site) ==
    IF i > Len(lines)
    THEN IF current_job.job_title # <<>> /\ current_job.company_name # <<>>
         THEN Append(out, MarkdownJob(current_job,
                  <<"J","o","b"," ","d","e","s","c","r","i","p","t","i","o","n"," ",
                    "n","o","t"," ","a","v","a","i","l","a","b","l","e">>,
                  <<site.name, Len(out) + 1>>))
         ELSE out
    ELSE LET line == Strip(lines[i])
         IN  IF line = <<>> THEN MarkdownLoop(lines, i + 1, current_job, out, site)
             ELSE IF \E k \in DOMAIN role_keywords : Contains(role_keywords[k], Lower(line))
             THEN MarkdownLoop(lines, i + 1,
                      [job_title |-> line, company_name |-> <<>>],
                      IF current_job.job_title # <<>> /\ current_job.company_name # <<>>
                      THEN Append(out, MarkdownJob(current_job, line,
                                                   <<site.name, Len(out) + 1>>))
                      ELSE out,
                      site)
             ELSE IF current_job.job_title # <<>> /\ current_job.company_name = <<>>
                     /\ ~LooksLikeLink(line)
             THEN MarkdownLoop(lines, i + 1,
                      [current_job EXCEPT !.company_name = line], out, site)
             ELSE MarkdownLoop(lines, i + 1, current_job, out, site)

\* _extract_from_markdown(markdown_content, site_name); the markdown is the
\* sequence of its lines (markdown_content.split('\n')).
_extract_from_markdown(lines, site) == MarkdownLoop(lines, 1, NoJob, <<>>, site)

\* What the rendering collaborator does when tier 2 calls it: as for tier 1,
\* with the page's markdown (its lines; <<>> is no markdown) in place of the
\* extracted content.
MarkdownOutcome(kind, success, lines) ==
    [kind |-> kind, success |-> success, markdown |-> lines]

\* _fallback_stealth_extraction for one outcome of the collaborator.
_fallback_stealth_extraction(o, site) ==
    IF o.kind = "setup_error" THEN [raised |-> TRUE, jobs |-> <<>>]
    ELSE IF o.kind = "arun_error" THEN [raised |-> FALSE, jobs |-> <<>>]
    ELSE IF o.success /\ o.markdown # <<>>
         THEN [raised |-> FALSE, jobs |-> _extract_from_markdown(o.markdown, site)]
    ELSE [raised |-> FALSE, jobs |-> <<>>]

-----------------------------------------------------------------------------
(* Board orchestrator: src/job_finder.py, search_job_board and             *)
(* search_all_job_boards                                                   *)

Board(name, chars, base_url, search_pattern, needs_stealth) ==
    [name |-> name, chars |-> chars, base_url |-> base_url,
     search_pattern |-> search_pattern, needs_stealth |-> needs_stealth]

\* _initialize_job_boards(): the nine configured boards; chars is the name
\* as a sequence of characters, as are base_url and search_pattern.
ConfiguredBoards ==
    << Board("LinkedIn", <<"L","i","n","k","e","d","I","n">>,
             <<"h","t","t","p","s",":","/","/","w","w","w",".","l","i","n",
               "k","e","d","i","n",".","c","o","m">>,
             <<"/","j","o","b","s","/","s","e","a","r","c","h","/","?","k",
               "e","y","w","o","r","d","s","=","{","k","e","y","w","o","r",
               "d","s","}","&","l","o","c","a","t","i","o","n","=","{","l",
               "o","c","a","t","i","o","n","}","&","f","_","T","P","R","=",
               "r","8","6","4","0","0">>, TRUE),
       Board("Indeed", <<"I","n","d","e","e","d">>,
             <<"h","t","t","p","s",":","/","/","w","w","w",".","i","n","d",
               "e","e","d",".","c","o","m">>,
             <<"/","j","o","b","s","?","q","=","{","k","e","y","w","o","r",
               "d","s","}","&","l","=","{","l","o","c","a","t","i","o","n",
               "}","&","f","r","o","m","a","g","e","=","1","&","s","o","r",
               "t","=","d","a","t","e">>, TRUE),
       Board("Glassdoor", <<"G","l","a","s","s","d","o","o","r">>,
             <<"h","t","t","p","s",":","/","/","w","w","w",".","g","l","a",
               "s","s","d","o","o","r",".","c","o","m">>,
             <<"/","J","o","b","/","j","o","b","s",".","h","t","m","?","s",
               "c",".","k","e","y","w","o","r","d","=","{","k","e","y","w",
               "o","r","d","s","}","&","l","o","c","T","=","C","&","l","o",
               "c","I","d","=","&","l","o","c","K","e","y","w","o","r","d",
               "=","{","l","o","c","a","t","i","o","n","}">>, TRUE),
       Board("ZipRecruiter", <<"Z","i","p","R","e","c","r","u","i","t","e","r">>,
             <<"h","t","t","p","s",":","/","/","w","w","w",".","z","i","p",
               "r","e","c","r","u","i","t","e","r",".","c","o","m">>,
             <<"/","j","o","b","s","/","s","e","a","r","c","h","?","s","e",
               "a","r","c","h","=","{","k","e","y","w","o","r","d","s","}",
               "&","l","o","c","a","t","i","o","n","=","{","l","o","c","a",
               "t","i","o","n","}","&","d","a","y","s","=","1">>, TRUE),
       Board("AngelList", <<"A","n","g","e","l","L","i","s","t">>,
             <<"h","t","t","p","s",":","/","/","a","n","g","e","l",".","c",
               "o">>,
             <<"/","j","o","b","s","?","k","e","y","w","o","r","d","s","=",
               "{","k","e","y","w","o","r","d","s","}","&","l","o","c","a",
               "t","i","o","n","=","{","l","o","c","a","t","i","o","n","}">>, FALSE),
       Board("Remote.co", <<"R","e","m","o","t","e",".","c","o">>,
             <<"h","t","t","p","s",":","/","/","r","e","m","o","t","e",".",
               "c","o">>,
             <<"/","r","e","m","o","t","e","-","j","o","b","s","/","s","e",
               "a","r","c","h","/","?","s","e","a","r","c","h","_","k","e",
               "y","w","o","r","d","s","=","{","k","e","y","w","o","r","d",
               "s","}">>, FALSE),
       Board("SimplyHired", <<"S","i","m","p","l","y","H","i","r","e","d">>,
             <<"h","t","t","p","s",":","/","/","w","w","w",".","s","i","m",
               "p","l","y","h","i","r","e","d",".","c","o","m">>,
             <<"/","s","e","a","r","c","h","?","q","=","{","k","e","y","w",
               "o","r","d","s","}","&","l","=","{","l","o","c","a","t","i",
               "o","n","}","&","f","d","b","=","1">>, TRUE),
       Board("Monster", <<"M","o","n","s","t","e","r">>,
             <<"h","t","t","p","s",":","/","/","w","w","w",".","m","o","n",
               "s","t","e","r",".","c","o","m">>,
             <<"/","j","o","b","s","/","s","e","a","r","c","h","?","q","=",
               "{","k","e","y","w","o","r","d","s","}","&","w","h","e","r",
               "e","=","{","l","o","c","a","t","i","o","n","}","&","t","m",
               "=","1">>, TRUE),
       Board("Dice", <<"D","i","c","e">>,
             <<"h","t","t","p","s",":","/","/","w","w","w",".","d","i","c",
               "e",".","c","o","m">>,
             <<"/","j","o","b","s","?","q","=","{","k","e","y","w","o","r",
               "d","s","}","&","l","o","c","a","t","i","o","n","=","{","l",
               "o","c","a","t","i","o","n","}","&","f","i","l","t","e","r",
               "s",".","p","o","s","t","e","d","D","a","t","e","=","O","N",
               "E">>, TRUE) >>

\* The most boards a finder is configured with here.
MaxBoards == 3

\* The default of the max_parallel argument.
default_max_parallel == 2

\* The configurations searched: the first n configured boards, each one
\* either needing stealth or regular.
Configurations ==
    UNION { { [k \in 1..n |-> [ConfiguredBoards[k] EXCEPT !.needs_stealth = f[k]]]
              : f \in [1..n -> BOOLEAN] }
            : n \in 0..MaxBoards }

HexDigits == <<"0","1","2","3","4","5","6","7","8","9","A","B","C","D","E","F">>

\* One byte as quote writes it: "%" and two capital hexadecimal digits.
PercentByte(b) == <<"%", HexDigits[(b \div 16) + 1], HexDigits[(b % 16) + 1]>>

\* The characters quote never encodes: the ASCII letters, the digits and
\* "_", ".", "-", "~".
AlwaysSafe ==
    {c \in DOMAIN CodePoints :
        CodePoints[c] \in (48..57) \cup (65..90) \cup (97..122)} \cup {"_", ".", "-", "~"}

\* urllib.parse.quote_plus of one character: a space becomes "+", a safe
\* character stays, every other character becomes the percent-encoded
\* bytes of its UTF-8 encoding (one byte below U+0080, two from there to
\* U+00FF).
QuoteChar(c) ==
    IF c = " " THEN <<"+">>
    ELSE IF c \in AlwaysSafe THEN <<c>>
    ELSE LET cp == CodePoint(c)
         IN  IF cp < 128 THEN PercentByte(cp)
             ELSE PercentByte(192 + (cp \div 64)) \o PercentByte(128 + (cp % 64))

RECURSIVE quote_plus(_)
quote_plus(str) ==
    IF str = <<>> THEN <<>> ELSE QuoteChar(Head(str)) \o quote_plus(Tail(str))

\* pattern.format(keywords=kw, location=loc) for a pattern whose braces
\* are those of the replacement fields {keywords} and {location}: each
\* field gives way to its argument, an argument without a field is left
\* out.
RECURSIVE Format(_, _, _)
Format(pattern, kw, loc) ==
    LET opening == {i \in DOMAIN pattern : pattern[i] = "{"}
        at == SetMin(opening)
        field == SubSeq(pattern, at, at + 9)
        rest == SubSeq(pattern, at + 10, Len(pattern))
    IN  IF opening = {} THEN pattern
        ELSE IF field = <<"{","k","e","y","w","o","r","d","s","}">>
        THEN SubSeq(pattern, 1, at - 1) \o kw \o Format(rest, kw, loc)
        ELSE IF field = <<"{","l","o","c","a","t","i","o","n","}">>
        THEN SubSeq(pattern, 1, at - 1) \o loc \o Format(rest, kw, loc)
        ELSE SubSeq(pattern, 1, at) \o Format(SubSeq(pattern, at + 1, Len(pattern)), kw, loc)

\* search_url = job_board.base_url + job_board.search_pattern.format(
\*     keywords=quote_plus(keywords), location=quote_plus(location))
search_url(job_board, kw, loc) ==
    job_board.base_url \o Format(job_board.search_pattern, quote_plus(kw), quote_plus(loc))

\* Stamp, but only the first job is stamped.
Stamp_first_only(js, job_board, kw, loc) ==
    [k \in DOMAIN js |->
        IF k = 1
        THEN [js[k] EXCEPT !.source_site = Str(job_board.chars),
                           !.source_url = Str(search_url(job_board, kw, loc))]
        ELSE js[k]]

\* for job in jobs: job.source_site = ...; job.source_url = ...
Stamp(js, job_board, kw, loc) ==
    LET stamp == search_url(job_board, kw, loc)
    IN  [k \in DOMAIN js |->
            [js[k] EXCEPT !.source_site = Str(job_board.chars),
                          !.source_url = Str(stamp)]]

stealth_boards == SelectSeq(job_boards, LAMBDA b : b.needs_stealth)
regular_boards == SelectSeq(job_boards, LAMBDA b : ~b.needs_stealth)

\* batch = regular_boards[batch_i:batch_i + max_parallel], as positions of regular_boards.
BatchPositions == {k \in 1..Len(regular_boards) : batch_i < k /\ k <= batch_i + max_parallel}

BoardNamed(name) == CHOOSE b \in {job_boards[k] : k \in DOMAIN job_boards} : b.name = name

\* The name of a configured board as the value of a str field.
NameStr(name) == Str(BoardNamed(name).chars)

\* The name of the configured board that the record carries as source_site.
SiteOf(r) ==
    (CHOOSE b \in {job_boards[k] : k \in DOMAIN job_boards} :
        Str(b.chars) = r.source_site).name

\* A search_job_board call.  pc is
\*   "idle"      not called
\*   "entering"  called, waiting for AsyncWebCrawler.__aenter__
\*   "crawling"  session open, waiting for tier 1's crawler.arun
\*   "fallback"  session open, waiting for tier 2's crawler.arun
\*   "exiting"   waiting for AsyncWebCrawler.__aexit__
\*   "returned"  returned jobs
\*   "raised"    left by an exception
\* jobs is the local list jobs, which is gone once the call has raised;
\* tier1 and tier2 count the calls of _extract_with_llm and of
\* _fallback_stealth_extraction.
IdleTask == [pc |-> "idle", jobs |-> <<>>, tier1 |-> 0, tier2 |-> 0]

\* The collaborator answered with a success status.
Succeeded(o) == o.kind = "result" /\ o.success

Str_Dev == <<"D","e","v">>
Str_Acme == <<"A","c","m","e">>
Str_Nyc == <<"N","y","c">>
Str_QA == <<"Q","A">>

\* An element of the JSON array the extraction model returns.
Item(title, company, loc, description) ==
    LET items == [k \in RequiredFields |->
                    CASE k = "job_title" -> title
                      [] k = "company_name" -> company
                      [] k = "location" -> loc
                      [] OTHER -> description]
    IN  Dict([k \in {k \in DOMAIN items : items[k] # Absent} |-> items[k]])

\* The mapping d with the item k set to v.
With(d, k, v) ==
    Dict([x \in DOMAIN d.f \cup {k} |-> IF x = k THEN v ELSE d.f[x]])

ItemA == Item(Str(Str_Dev), Str(Str_Acme), Str(Str_Nyc),
              Str(<<"B","u","i","l","d","s"," ","t","h","i","n","g","s">>))
ItemA2 == Item(Str(Sloppy(Str_Dev)), Str(Sloppy(Str_Acme)), Str(Sloppy(Str_Nyc)),
               Str(<<"C","a","r","e","e","r","s">>))
ItemB == Item(Str(Str_QA), Str(Str_Acme), None,
              Str(<<"T","e","s","t","s"," ","t","h","i","n","g","s">>))
ItemSpam == Item(Str(<<"V","i","e","w"," ","a","l","l"," ","j","o","b","s">>),
                 Str(Str_Acme), Absent, Str(<<>>))
ItemNullTitle == Item(None, Str(Str_Acme), Str(Str_Nyc), Str(<<>>))
ItemNoDescription == Item(Str(Str_QA), Str(Str_Acme), Str(Str_Nyc), Absent)

Str_Elsewhere == <<"E","l","s","e","w","h","e","r","e">>

\* An object that names a source of its own.
ItemElsewhere ==
    With(With(Item(Str(Str_Dev), Str(Str_Acme), Str(Str_Nyc), Str(Str_Elsewhere)),
              "source_site", Str(Str_Elsewhere)),
         "source_url", Str(<<"h","t","t","p",":","/","/","x","/","y">>))

\* An object that names as its source LinkedIn and LinkedIn's query for
\* "c# dev" in "New York, NY": what the stamp of lines 275-277 writes.
ItemOwnSource ==
    With(With(Item(Str(Str_Dev), Str(Str_Acme), Str(Str_Nyc), Str(<<"o","w","n">>)),
              "source_site", Str(<<"L","i","n","k","e","d","I","n">>)),
         "source_url",
         Str(<<"h","t","t","p","s",":","/","/","w","w","w",".","l","i","n",
               "k","e","d","i","n",".","c","o","m","/","j","o","b","s","/",
               "s","e","a","r","c","h","/","?","k","e","y","w","o","r","d",
               "s","=","c","%","2","3","+","d","e","v","&","l","o","c","a",
               "t","i","o","n","=","N","e","w","+","Y","o","r","k","%","2",
               "C","+","N","Y","&","f","_","T","P","R","=","r","8","6","4",
               "0","0">>))

\* '[' * 9998 + 'engineer': no JSON, and nested deeper than json.loads goes.
DeepText == [i \in 1..9998 |-> "["] \o <<"e","n","g","i","n","e","e","r">>

\* '1' * 4301: a JSON number of more digits than int() converts.
LongNumber == [i \in 1..4301 |-> "1"]

\* The answers of the collaborator to tier 1.
Tier1Outcomes ==
    { Outcome("setup_error", FALSE, "none", <<>>, <<>>),
      Outcome("arun_error", FALSE, "none", <<>>, <<>>),
      Outcome("result", FALSE, "none", <<>>, <<>>),
      Outcome("result", TRUE, "none", <<>>, <<>>),
      Outcome("result", TRUE, "text", <<" ","\n">>, <<>>),
      Outcome("result", TRUE, "text", <<"o","o","p","s">>, <<>>),
      Outcome("result", TRUE, "json_other", <<>>, <<>>),
      Outcome("result", TRUE, "json_dict", <<>>, <<ItemA>>),
      Outcome("result", TRUE, "text_too_deep", DeepText, <<>>),
      Outcome("result", TRUE, "json_list", <<>>, <<ItemElsewhere, ItemOwnSource>>),
      Outcome("result", TRUE, "json_list", <<>>, <<ItemA2, ItemB>>),
      Outcome("result", TRUE, "json_list", <<>>, <<ItemSpam, ItemA>>),
      Outcome("result", TRUE, "json_list", <<>>, <<ItemB, ItemNullTitle>>),
      Outcome("result", TRUE, "json_list", <<>>,
              <<NotADict("str"), ItemNoDescription, ItemA>>) }

\* The answers of the collaborator to tier 2.
Tier2Outcomes ==
    { MarkdownOutcome("setup_error", FALSE, <<>>),
      MarkdownOutcome("arun_error", FALSE, <<>>),
      MarkdownOutcome("result", FALSE, <<>>),
      MarkdownOutcome("result", TRUE, <<>>),
      MarkdownOutcome("result", TRUE, << <<"C","a","r","e","e","r","s">>, <<>> >>),
      MarkdownOutcome("result", TRUE,
          << <<"S","e","n","i","o","r"," ","E","n","g","i","n","e","e","r">>,
             <<"h","t","t","p","s",":","/","/","a","c","m","e",".","i","o">>,
             <<" ","A","c","m","e">>,
             <<"Q","A"," ","A","n","a","l","y","s","t">>,
             <<"a","p","p","l","y"," ","n","o","w">>,
             <<"B","e","t","a">> >>) }

IdleSearch ==
    /\ job_boards = <<>>
    /\ keywords = <<>>
    /\ search_location = <<>>
    /\ max_parallel = 0
    /\ pc = "idle"
    /\ stealth_i = 0
    /\ batch_i = 0
    /\ all_jobs = <<>>
    /\ task = <<>>
    /\ returned = <<>>
    /\ any_success = FALSE

\* A finder after construction, and the arguments of one
\* search_all_job_boards call.
InitSearch ==
    /\ job_boards \in Configurations
    /\ keywords = <<"c","#"," ","d","e","v">>
    /\ search_location = <<"N","e","w"," ","Y","o","r","k",","," ","N","Y">>
    /\ max_parallel \in 0..default_max_parallel
    /\ pc = "start"
    /\ stealth_i = 0
    /\ batch_i = 0
    /\ all_jobs = <<>>
    /\ task = [n \in {job_boards[k].name : k \in DOMAIN job_boards} |-> IdleTask]
    /\ returned = <<>>
    /\ any_success = FALSE

\* The unchanged arguments and configuration.
SearchInputs == <<job_boards, keywords, search_location, max_parallel>>

\* Lines 527-536: all_jobs = [], the two lists, the loop at 538 begins.
Begin ==
    /\ pc = "start"
    /\ pc' = "stealth"
    /\ stealth_i' = 1
    /\ UNCHANGED <<SearchInputs, batch_i, all_jobs, task, returned, any_success, notSearchVars>>

\* Line 540: the loop calls search_job_board for the next stealth board and
\* waits for it.
StealthCall ==
    /\ pc = "stealth"
    /\ stealth_i <= Len(stealth_boards)
    /\ task' = [task EXCEPT ![stealth_boards[stealth_i].name].pc = "entering"]
    /\ pc' = "stealth_await"
    /\ UNCHANGED <<SearchInputs, stealth_i, batch_i, all_jobs, returned, any_success, notSearchVars>>

\* Lines 541-545: the call returned; its jobs join all_jobs and the loop
\* sleeps.
StealthCollect ==
    /\ pc = "stealth_await"
    /\ task[stealth_boards[stealth_i].name].pc = "returned"
    /\ all_jobs' = all_jobs \o task[stealth_boards[stealth_i].name].jobs
    /\ pc' = "stealth_sleep"
    /\ UNCHANGED <<SearchInputs, stealth_i, batch_i, task, returned, any_success, notSearchVars>>

\* StealthError without the except clause: the exception leaves
\* search_all_job_boards.
StealthError_propagates ==
    /\ pc = "stealth_await"
    /\ task[stealth_boards[stealth_i].name].pc = "raised"
    /\ pc' = "raised"
    /\ UNCHANGED <<SearchInputs, stealth_i, batch_i, all_jobs, task, returned, any_success,
                   notSearchVars>>

\* Lines 547-548: the call raised; the error is logged and the loop goes on.
StealthError ==
    /\ pc = "stealth_await"
    /\ task[stealth_boards[stealth_i].name].pc = "raised"
    /\ pc' = "stealth"
    /\ stealth_i' = stealth_i + 1
    /\ UNCHANGED <<SearchInputs, batch_i, all_jobs, task, returned, any_success, notSearchVars>>

\* Line 545: asyncio.sleep(5) is over.
StealthSleep ==
    /\ pc = "stealth_sleep"
    /\ pc' = "stealth"
    /\ stealth_i' = stealth_i + 1
    /\ UNCHANGED <<SearchInputs, batch_i, all_jobs, task, returned, any_success, notSearchVars>>

\* Lines 551-553: the stealth loop is over; with regular boards,
\* range(0, len(regular_boards), max_parallel) is built, and a step of 0
\* raises ValueError.
StartBatches ==
    /\ pc = "stealth"
    /\ stealth_i > Len(stealth_boards)
    /\ pc' = IF regular_boards # <<>> /\ max_parallel = 0 THEN "raised" ELSE "batch"
    /\ batch_i' = 0
    /\ UNCHANGED <<SearchInputs, stealth_i, all_jobs, task, returned, any_success, notSearchVars>>

\* Lines 554-561: the tasks of the next batch are created and gathered.
BatchCall ==
    /\ pc = "batch"
    /\ batch_i < Len(regular_boards)
    /\ task' = [n \in DOMAIN task |->
                  IF \E k \in BatchPositions : regular_boards[k].name = n
                  THEN [task[n] EXCEPT !.pc = "entering"]
                  ELSE task[n]]
    /\ pc' = "gather"
    /\ UNCHANGED <<SearchInputs, stealth_i, batch_i, all_jobs, returned, any_success, notSearchVars>>

\* BatchResults, but one exception makes every result of the batch one.
BatchResults_exception_spreads ==
    [k \in BatchPositions |->
        IF \A j \in BatchPositions : task[regular_boards[j].name].pc = "returned"
        THEN [exception |-> FALSE, jobs |-> task[regular_boards[k].name].jobs]
        ELSE [exception |-> TRUE, jobs |-> <<>>]]

\* batch_results of asyncio.gather(*tasks, return_exceptions=True): per
\* batch position, in the order of the batch, the list a task returned or
\* the exception that left it.
BatchResults ==
    [k \in BatchPositions |->
        IF task[regular_boards[k].name].pc = "returned"
        THEN [exception |-> FALSE, jobs |-> task[regular_boards[k].name].jobs]
        ELSE [exception |-> TRUE, jobs |-> <<>>]]

\* Extend, but the result of the last position of the batch goes first.
RECURSIVE Extend_last_first(_, _, _)
Extend_last_first(acc, results, k) ==
    IF k \notin DOMAIN results THEN acc
    ELSE Extend_last_first(acc, results, k + 1)
            \o (IF results[k].exception THEN <<>> ELSE results[k].jobs)

\* Lines 563-568: the results that are lists extend all_jobs, in the order
\* of the batch, from position k on.
RECURSIVE Extend(_, _, _)
Extend(acc, results, k) ==
    IF k \notin DOMAIN results THEN acc
    ELSE Extend(IF results[k].exception THEN acc ELSE acc \o results[k].jobs,
                results, k + 1)

\* BatchCollect with the sleep of line 572 after every batch, the last too.
BatchCollect_always_sleeps ==
    /\ pc = "gather"
    /\ \A k \in BatchPositions : task[regular_boards[k].name].pc \in {"returned", "raised"}
    /\ all_jobs' = Extend(all_jobs, BatchResults, batch_i + 1)
    /\ pc' = "batch_sleep"
    /\ batch_i' = batch_i
    /\ UNCHANGED <<SearchInputs, stealth_i, task, returned, any_success, notSearchVars>>

\* Lines 561-572: gather is over when every task of the batch is; the
\* results are collected, and a sleep follows unless the batch was the last.
BatchCollect ==
    /\ pc = "gather"
    /\ \A k \in BatchPositions : task[regular_boards[k].name].pc \in {"returned", "raised"}
    /\ all_jobs' = Extend(all_jobs, BatchResults, batch_i + 1)
    /\ IF batch_i + max_parallel < Len(regular_boards)
       THEN pc' = "batch_sleep" /\ batch_i' = batch_i
       ELSE pc' = "batch" /\ batch_i' = batch_i + max_parallel
    /\ UNCHANGED <<SearchInputs, stealth_i, task, returned, any_success, notSearchVars>>

\* Line 572: asyncio.sleep(2) is over.
BatchSleep ==
    /\ pc = "batch_sleep"
    /\ pc' = "batch"
    /\ batch_i' = batch_i + max_parallel
    /\ UNCHANGED <<SearchInputs, stealth_i, all_jobs, task, returned, any_success, notSearchVars>>

\* Lines 574-578: the batches are over; all_jobs is deduplicated and returned.
Return ==
    /\ pc = "batch"
    /\ batch_i >= Len(regular_boards)
    /\ returned' = _deduplicate_jobs(all_jobs)
    /\ pc' = "done"
    /\ UNCHANGED <<SearchInputs, stealth_i, batch_i, all_jobs, task, any_success, notSearchVars>>

\* Line 250: AsyncWebCrawler.__aenter__ is over: the session is open, or the
\* browser did not start and search_job_board raises.  With the session
\* open, line 253 calls _extract_with_llm, which waits for crawler.arun.
Enter(n) ==
    /\ task[n].pc = "entering"
    /\ \E ok \in BOOLEAN :
          task' = [task EXCEPT ![n].pc = IF ok THEN "crawling" ELSE "raised"]
    /\ UNCHANGED <<SearchInputs, pc, stealth_i, batch_i, all_jobs, returned, any_success, notSearchVars>>

\* AfterTier1, but a stealth board falls back whenever tier 1 has no jobs.
AfterTier1_fallback_when_empty(t, o, job_board) ==
    LET r == _extract_with_llm(o, job_board)
    IN  [t EXCEPT !.tier1 = t.tier1 + 1,
                  !.jobs = IF r.raised THEN t.jobs ELSE t.jobs \o r.jobs,
                  !.pc = IF r.jobs = <<>> /\ job_board.needs_stealth
                         THEN "fallback" ELSE "exiting"]

\* AfterTier1, but an exception of tier 1 leaves search_job_board at once,
\* past AsyncWebCrawler.__aexit__.
AfterTier1_leaves_session_open(t, o, job_board) ==
    LET r == _extract_with_llm(o, job_board)
    IN  [t EXCEPT !.tier1 = t.tier1 + 1,
                  !.jobs = IF r.raised THEN <<>> ELSE t.jobs \o r.jobs,
                  !.pc = IF r.raised THEN "raised" ELSE "exiting"]

\* The task after tier 1 answered with o: lines 253-265.
AfterTier1(t, o, job_board) ==
    LET r == _extract_with_llm(o, job_board)
    IN  [t EXCEPT !.tier1 = t.tier1 + 1,
                  !.jobs = IF r.raised THEN t.jobs ELSE t.jobs \o r.jobs,
                  !.pc = IF r.raised /\ job_board.needs_stealth
                         THEN "fallback" ELSE "exiting"]

\* Lines 253-265: tier 1 is over.
Tier1(n) ==
    /\ task[n].pc = "crawling"
    /\ \E o \in Tier1Outcomes :
          /\ task' = [task EXCEPT ![n] = AfterTier1(task[n], o, BoardNamed(n))]
          /\ any_success' = (any_success \/ Succeeded(o))
    /\ UNCHANGED <<SearchInputs, pc, stealth_i, batch_i, all_jobs, returned, notSearchVars>>

\* AfterTier2, but a tier 2 that extracted nothing is tried a second time.
AfterTier2_tried_again(t, o, job_board) ==
    LET r == _fallback_stealth_extraction(o, job_board)
    IN  [t EXCEPT !.tier2 = t.tier2 + 1,
                  !.jobs = IF r.raised THEN t.jobs ELSE t.jobs \o r.jobs,
                  !.pc = IF r.jobs = <<>> /\ t.tier2 = 0 THEN "fallback" ELSE "exiting"]

\* The task after tier 2 answered with o: lines 266-272.
AfterTier2(t, o, job_board) ==
    LET r == _fallback_stealth_extraction(o, job_board)
    IN  [t EXCEPT !.tier2 = t.tier2 + 1,
                  !.jobs = IF r.raised THEN t.jobs ELSE t.jobs \o r.jobs,
                  !.pc = "exiting"]

\* Lines 266-272: tier 2 is over.
Tier2(n) ==
    /\ task[n].pc = "fallback"
    /\ \E o \in Tier2Outcomes :
          /\ task' = [task EXCEPT ![n] = AfterTier2(task[n], o, BoardNamed(n))]
          /\ any_success' = (any_success \/ Succeeded(o))
    /\ UNCHANGED <<SearchInputs, pc, stealth_i, batch_i, all_jobs, returned, notSearchVars>>

\* AfterExit without the loop of lines 275-277: the jobs are returned as
\* they were extracted.
AfterExit_unstamped(t, ok, job_board, kw, loc) ==
    IF ok
    THEN [t EXCEPT !.pc = "returned"]
    ELSE [t EXCEPT !.pc = "raised", !.jobs = <<>>]

\* The task after __aexit__: lines 274-279, or the exception of __aexit__.
AfterExit(t, ok, job_board, kw, loc) ==
    IF ok
    THEN [t EXCEPT !.pc = "returned", !.jobs = Stamp(t.jobs, job_board, kw, loc)]
    ELSE [t EXCEPT !.pc = "raised", !.jobs = <<>>]

\* Lines 273-279: the session is closed, the jobs are stamped and returned.
Exit(n) ==
    /\ task[n].pc = "exiting"
    /\ \E ok \in BOOLEAN :
          task' = [task EXCEPT ![n] = AfterExit(task[n], ok, BoardNamed(n),
                                                keywords, search_location)]
    /\ UNCHANGED <<SearchInputs, pc, stealth_i, batch_i, all_jobs, returned, any_success, notSearchVars>>

-----------------------------------------------------------------------------
(* One search_job_board call with its tiers observed                       *)

\* Nothing is observed.
NoLog == log = <<>>

Str_Ops == <<"O","p","s">>

\* An object whose salary_range is a JSON number, and one whose optional
\* fields are strings and whose required_skills is a JSON array.
ItemSalaryNumber ==
    With(Item(Str(Str_Ops), Str(Str_Acme), Str(Str_Nyc), Str(<<>>)),
         "salary_range", IntOf(100000))
ItemSalaryText ==
    With(With(Item(Str(<<"S","R","E">>), Str(Str_Acme), Str(Str_Nyc), Str(<<>>)),
              "salary_range", Str(<<"1","0","0","k">>)),
         "required_skills", StrList(<< <<"A","W","S">> >>))

ItemNumTitle == Item(Num, Str(Str_Acme), Str(Str_Nyc), Str(<<>>))
ItemBlankTitle == Item(Str(<<" ">>), Str(Str_Acme), Str(Str_Nyc), Str(<<>>))
ItemNoCompany == Item(Str(Str_Dev), Absent, Str(Str_Nyc), Str(<<>>))

\* The answers of the collaborator to tier 1, those of Tier1Outcomes and more.
BoardTier1Outcomes ==
    Tier1Outcomes \cup
    { Outcome("result", TRUE, "text",
              <<"H","i","r","i","n","g"," ","a","n"," ","E","n","g","i","n","e","e","r">>,
              <<>>),
      Outcome("result", FALSE, "text", <<"o","o","p","s">>, <<>>),
      Outcome("result", FALSE, "json_list", <<>>, <<ItemA>>),
      Outcome("result", TRUE, "json_too_long", LongNumber, <<>>),
      Outcome("result", FALSE, "text_too_deep", DeepText, <<>>),
      Outcome("result", TRUE, "json_list", <<>>, <<>>),
      Outcome("result", TRUE, "json_list", <<>>, <<ItemA>>),
      Outcome("result", TRUE, "json_list", <<>>, <<ItemElsewhere, ItemA>>),
      Outcome("result", TRUE, "json_list", <<>>, <<ItemSpam, NotADict("str"), ItemBlankTitle>>),
      Outcome("result", TRUE, "json_list", <<>>, <<ItemNoCompany, ItemB>>),
      Outcome("result", TRUE, "json_list", <<>>, <<ItemB, ItemNumTitle, ItemA>>),
      Outcome("result", TRUE, "json_list", <<>>, <<ItemA, ItemNoDescription, ItemB>>),
      Outcome("result", TRUE, "json_list", <<>>, <<ItemSalaryNumber, ItemA>>),
      Outcome("result", TRUE, "json_list", <<>>, <<ItemSalaryNumber>>),
      Outcome("result", TRUE, "json_list", <<>>, <<ItemSalaryText, ItemB>>),
      Outcome("result", TRUE, "json_dict", <<>>, <<ItemNullTitle>>),
      Outcome("result", TRUE, "json_dict", <<>>, <<ItemSpam>>) }

\* What tier 1 was given and did.
Tier1Entry(o, r) ==
    [tier |-> 1, answer |-> o, raised |-> r.raised, tier3 |-> r.tier3, jobs |-> r.jobs]

\* What tier 2 was given and did.
Tier2Entry(o, r) ==
    [tier |-> 2, answer |-> o, raised |-> r.raised, tier3 |-> FALSE, jobs |-> r.jobs]

\* Tier1, the answer drawn from outcomes and the tier observed.
Tier1Logged(n, outcomes) ==
    /\ task[n].pc = "crawling"
    /\ \E o \in outcomes :
          /\ task' = [task EXCEPT ![n] = AfterTier1(task[n], o, BoardNamed(n))]
          /\ any_success' = (any_success \/ Succeeded(o))
          /\ log' = [log EXCEPT ![n] =
                        Append(@, Tier1Entry(o, _extract_with_llm(o, BoardNamed(n))))]
    /\ UNCHANGED <<SearchInputs, pc, stealth_i, batch_i, all_jobs, returned,
                   validatorVars, dedupVars, recordVars, scorerVars,
                   resolverVars, markdownVars>>

\* Tier2, the tier observed.
Tier2Logged(n) ==
    /\ task[n].pc = "fallback"
    /\ \E o \in Tier2Outcomes :
          /\ task' = [task EXCEPT ![n] = AfterTier2(task[n], o, BoardNamed(n))]
          /\ any_success' = (any_success \/ Succeeded(o))
          /\ log' = [log EXCEPT ![n] =
                        Append(@, Tier2Entry(o, _fallback_stealth_extraction(o, BoardNamed(n))))]
    /\ UNCHANGED <<SearchInputs, pc, stealth_i, batch_i, all_jobs, returned,
                   validatorVars, dedupVars, recordVars, scorerVars,
                   resolverVars, markdownVars>>

\* search_job_board is called for the one board of a finder, stealth or
\* regular; search_all_job_boards is not running.
InitBoard ==
    /\ job_boards \in {c \in Configurations : Len(c) = 1}
    /\ keywords = <<"c","#"," ","d","e","v">>
    /\ search_location = <<"N","e","w"," ","Y","o","r","k",","," ","N","Y">>
    /\ max_parallel = default_max_parallel
    /\ pc = "board"
    /\ stealth_i = 0
    /\ batch_i = 0
    /\ all_jobs = <<>>
    /\ task = [n \in {job_boards[k].name : k \in DOMAIN job_boards} |->
                 [IdleTask EXCEPT !.pc = "entering"]]
    /\ returned = <<>>
    /\ any_success = FALSE
    /\ log = [n \in {job_boards[k].name : k \in DOMAIN job_boards} |-> <<>>]

-----------------------------------------------------------------------------
(* search_all_job_boards over three boards that answer with one object     *)

ItemRegister == Item(Str(<<"R","e","g","i","s","t","e","r"," ","n","o","w">>),
                     Str(Str_Acme), Str(Str_Nyc), Str(<<>>))

\* The answers of the collaborator to tier 1: a JSON array with one job
\* object, or no answer because the strategy could not be set up.
OneObjectOutcomes ==
    { Outcome("result", TRUE, "json_list", <<>>, <<ItemA>>),
      Outcome("result", TRUE, "json_list", <<>>, <<ItemRegister>>),
      Outcome("result", TRUE, "json_list", <<>>, <<ItemA2>>),
      Outcome("result", TRUE, "json_list", <<>>, <<ItemB>>),
      Outcome("result", TRUE, "json_list", <<>>, <<ItemSpam>>),
      Outcome("setup_error", FALSE, "none", <<>>, <<>>) }

\* A finder with three boards and the arguments of one
\* search_all_job_boards call.
InitThreeBoards ==
    /\ job_boards \in {c \in Configurations : Len(c) = 3}
    /\ keywords = <<"c","#"," ","d","e","v">>
    /\ search_location = <<"N","e","w"," ","Y","o","r","k",","," ","N","Y">>
    /\ max_parallel \in 0..default_max_parallel
    /\ pc = "start"
    /\ stealth_i = 0
    /\ batch_i = 0
    /\ all_jobs = <<>>
    /\ task = [n \in {job_boards[k].name : k \in DOMAIN job_boards} |-> IdleTask]
    /\ returned = <<>>
    /\ any_success = FALSE
    /\ log = [n \in {job_boards[k].name : k \in DOMAIN job_boards} |-> <<>>]

\* The answers of the collaborator to tier 1 that lead to each of the
\* tiers: the strategy cannot be set up, no success, a text that is no
\* JSON, and arrays whose objects have a null or a missing location, a
\* blank title, no company, padded fields, or optional fields that are a
\* number or strings.
PipelineOutcomes ==
    { Outcome("setup_error", FALSE, "none", <<>>, <<>>),
      Outcome("result", FALSE, "none", <<>>, <<>>),
      Outcome("result", TRUE, "text",
              <<"H","i","r","i","n","g"," ","a","n"," ","E","n","g","i","n","e","e","r">>,
              <<>>),
      Outcome("result", TRUE, "json_list", <<>>,
              <<ItemB, Item(Str(Str_Dev), Str(Str_Acme), Absent, Str(<<>>)), ItemBlankTitle>>),
      Outcome("result", TRUE, "json_list", <<>>, <<ItemNoCompany, ItemA2>>),
      Outcome("result", TRUE, "json_list", <<>>, <<ItemSalaryNumber, ItemSalaryText>>) }

-----------------------------------------------------------------------------
(* Record model: the keyword arguments the constructions are checked on   *)

\* The keyword arguments with the given items, Absent ones left out.
Kwargs(items) ==
    Dict([k \in {k \in DOMAIN items : items[k] # Absent} |-> items[k]])

Str_Desc == <<"B","u","i","l","d","s"," ","t","h","i","n","g","s">>

JobKwargs(title, company, location, description, skills, benefits) ==
    Kwargs([job_title |-> title, company_name |-> company, location |-> location,
            job_description |-> description, required_skills |-> skills,
            benefits |-> benefits])

\* The longest string of delimiters, blanks and letters handed to the
\* list fields.
MaxSkillLen == 4

\* The tokens of test_job_listing_validation.
SkillTokens ==
    { <<"P","y","t","h","o","n">>, <<"R","e","a","c","t">>, <<"A","W","S">>,
      <<"4","0","1","k">>, <<"S","t","o","c","k"," ","o","p","t","i","o","n","s">> }

\* "A, B; C"
ListedAs(A, B, C) == A \o <<",", " ">> \o B \o <<";", " ">> \o C

\* The strings handed to the list fields: every string up to MaxSkillLen,
\* every "A, B; C" of the tokens, and the test's "Python, React, AWS".
SkillStrings ==
    UNION {[1..k -> {"a", "b", " ", "\r", ",", ";"}] : k \in 0..MaxSkillLen}
      \cup {ListedAs(A, B, C) : A \in SkillTokens, B \in SkillTokens, C \in SkillTokens}
      \cup { <<"P","y","t","h","o","n",","," ","R","e","a","c","t",","," ","A","W","S">> }

\* The values handed to the list fields: the strings, and of the values
\* that are no strings those that are false, lists of strings, a list with a
\* number in it, and a number and a mapping that are not false.
ListValues ==
    {None, Zero, Bool(FALSE), Float(Float_0_0), Dict(<<>>), ListOf(<<>>),
     StrList(<< <<"P","y","t","h","o","n">>, <<"A","W","S">> >>),
     ListOf(<<Str(<<"A","W","S">>), Num>>), Num, Bool(TRUE), Float(Float_0_5),
     Dict([name |-> Str(<<"A","W","S">>)])}
      \cup {Str(v) : v \in SkillStrings}

RequiredValues == {Absent, None, Zero, Num, Str(<<>>), Str(<<" ">>), Str(Str_Dev)}

\* The values handed to the fields that are Optional[str].
OptionalValues ==
    {None, Zero, Num, Float(Float_0_5), ListOf(<<>>), Str(<<>>), Str(<<"1","0","0","k">>)}

JobListingInputs ==
    {JobKwargs(t, c, l, d, Absent, Absent) :
        t \in RequiredValues, c \in RequiredValues,
        l \in {Absent, Str(Str_Nyc)}, d \in {Absent, Str(<<>>), Str(Str_Desc)}}
      \cup {JobKwargs(Str(Str_Dev), Str(Str_Acme), Str(Str_Nyc), Str(Str_Desc), v, Absent) :
                v \in ListValues}
      \cup {JobKwargs(Str(Str_Dev), Str(Str_Acme), Str(Str_Nyc), Str(Str_Desc), Absent, v) :
                v \in ListValues}
      \cup {With(JobKwargs(Str(Str_Dev), Str(Str_Acme), Str(Str_Nyc), Str(Str_Desc),
                           Absent, Absent), k, v) :
                k \in OptionalFields \cup {"company_size"}, v \in OptionalValues}

\* The strings handed to relevance_score and to mutual_connections.
NumberStrings ==
    { <<"0",".","5">>, <<"0",".","2">>, <<" ","1"," ">>, <<"7">>, <<"-","3">>,
      <<"1",".","0">>, <<"0",".","0","5">>, <<"1","e","3">>, <<"D","e","v">>, <<>>,
      <<"1",".">>, <<"1","_","0","0","0">>, <<".","5","e","1">>,
      <<"+","_","1">>, <<" ","1","_","0">>, <<"0","_","_","1">>, <<"1","_",".","0">>,
      <<"2","_","0",".","0">>, <<"-","0","7">>, <<"0","-","1">>,
      <<CHOOSE c \in Whitespace : CodePoint(c) = 28, "1">>,
      <<"0",".","1","2","4","9","9","9","9","9","9","9","9","9","9","9","9","9","9","9",
        "9","9","9","9">> }

NumberValues ==
    {None, Zero, Num, Bool(TRUE), Float(Float_0_5), Float(Float_1_0), Float(Whole(0, 20)),
     Float(Whole(0, Past63)), IntOf(PastDouble), ListOf(<<>>)}
      \cup {Str(v) : v \in NumberStrings}

ContactPersonInputs ==
    {Kwargs([name |-> n, title |-> t, company |-> c]) :
        n \in RequiredValues,
        t \in {Absent, None, Num, Str(<<>>), Str(Str_Dev)},
        c \in {Absent, None, Str(Str_Acme)}}
      \cup {Kwargs([name |-> Str(Str_Dev), relevance_score |-> x, mutual_connections |-> m]) :
                x \in NumberValues \cup {Absent}, m \in NumberValues \cup {Absent}}
      \cup {With(Kwargs([name |-> Str(Str_Dev)]), k, v) :
                k \in ContactOptionalFields \cup {"nickname"}, v \in OptionalValues}

IdleRecord ==
    /\ record_cls = "None"
    /\ kwargs = Dict(<<>>)
    /\ built = NotConstructed

InitRecord ==
    /\ \/ record_cls = "JobListing" /\ kwargs \in JobListingInputs
       \/ record_cls = "ContactPerson" /\ kwargs \in ContactPersonInputs
    /\ built = NotConstructed

\* JobListing(**kwargs)
ConstructJobListing ==
    /\ record_cls = "JobListing"
    /\ built = NotConstructed
    /\ built' = JobListing_init(kwargs)
    /\ UNCHANGED <<record_cls, kwargs, notRecordVars>>

\* ContactPerson(**kwargs)
ConstructContactPerson ==
    /\ record_cls = "ContactPerson"
    /\ built = NotConstructed
    /\ built' = ContactPerson_init(kwargs)
    /\ UNCHANGED <<record_cls, kwargs, notRecordVars>>

-----------------------------------------------------------------------------
(* Relevance scorer: src/job_finder.py, _score_connections and             *)
(* find_connections_enhanced                                               *)

\* The list inside _score_connections.
scoring_keywords ==
    << <<"e","n","g","i","n","e","e","r">>,
       <<"d","e","v","e","l","o","p","e","r">>,
       <<"m","a","n","a","g","e","r">>,
       <<"d","i","r","e","c","t","o","r">>,
       <<"l","e","a","d">>,
       <<"s","e","n","i","o","r">> >>

\* if connection.title: / if connection.company: an Optional[str] that is
\* neither None nor empty.
Present(v) == v.t = "str" /\ v.s # <<>>

\* The for loop over keywords, from the k-th keyword on, score so far given.
RECURSIVE KeywordLoop(_, _, _, _)
KeywordLoop(k, title_lower, job_title_lower, score) ==
    IF k > Len(scoring_keywords) THEN score
    ELSE KeywordLoop(k + 1, title_lower, job_title_lower,
            IF /\ Contains(scoring_keywords[k], title_lower)
               /\ Contains(scoring_keywords[k], job_title_lower)
            THEN FAdd(score, Float_0_2) ELSE score)

\* The scorer that counts a keyword found in the contact's title alone.
ScoreOf_keyword_in_title_only(connection, job) ==
    LET RECURSIVE Loop(_, _, _)
        Loop(k, title_lower, score) ==
            IF k > Len(scoring_keywords) THEN score
            ELSE Loop(k + 1, title_lower,
                    IF Contains(scoring_keywords[k], title_lower)
                    THEN FAdd(score, Float_0_2) ELSE score)
        titled ==
            IF Present(connection.title)
            THEN Loop(1, Lower(connection.title.s),
                      IF Contains(Lower(job.job_title), Lower(connection.title.s))
                      THEN FAdd(Float_0_0, Float_0_5) ELSE Float_0_0)
            ELSE Float_0_0
        withCompany ==
            IF /\ Present(connection.company)
               /\ Contains(Lower(job.company_name), Lower(connection.company.s))
            THEN FAdd(titled, Float_0_3) ELSE titled
    IN  FMin(withCompany, Float_1_0)

\* The scorer without the clamp.
ScoreOf_unclamped(connection, job) ==
    LET titled ==
            IF Present(connection.title)
            THEN KeywordLoop(1, Lower(connection.title.s), Lower(job.job_title),
                      IF Contains(Lower(job.job_title), Lower(connection.title.s))
                      THEN FAdd(Float_0_0, Float_0_5) ELSE Float_0_0)
            ELSE Float_0_0
    IN  IF /\ Present(connection.company)
           /\ Contains(Lower(job.company_name), Lower(connection.company.s))
        THEN FAdd(titled, Float_0_3) ELSE titled

\* The scorer that adds up the three contributions without order.
ScoreOf_company_first(connection, job) ==
    LET withCompany ==
            IF /\ Present(connection.company)
               /\ Contains(Lower(job.company_name), Lower(connection.company.s))
            THEN FAdd(Float_0_0, Float_0_3) ELSE Float_0_0
        titled ==
            IF Present(connection.title)
            THEN KeywordLoop(1, Lower(connection.title.s), Lower(job.job_title),
                      IF Contains(Lower(job.job_title), Lower(connection.title.s))
                      THEN FAdd(withCompany, Float_0_5) ELSE withCompany)
            ELSE withCompany
    IN  FMin(titled, Float_1_0)

\* The body of the loop of _score_connections for one connection: the value
\* assigned to connection.relevance_score.
ScoreOf(connection, job) ==
    LET titled ==
            IF Present(connection.title)
            THEN KeywordLoop(1, Lower(connection.title.s), Lower(job.job_title),
                      IF Contains(Lower(job.job_title), Lower(connection.title.s))
                      THEN FAdd(Float_0_0, Float_0_5) ELSE Float_0_0)
            ELSE Float_0_0
        withCompany ==
            IF /\ Present(connection.company)
               /\ Contains(Lower(job.company_name), Lower(connection.company.s))
            THEN FAdd(titled, Float_0_3) ELSE titled
    IN  FMin(withCompany, Float_1_0)

\* The scorer that leaves out the connections it scored 0.0.
_score_connections_drops_unrelated(conns, job) ==
    SelectSeq([k \in DOMAIN conns |->
                  [conns[k] EXCEPT !.relevance_score = Float(ScoreOf(conns[k], job))]],
              LAMBDA c : c.relevance_score # Float(Float_0_0))

\* _score_connections(connections, job): every connection of the list has
\* its relevance_score assigned, and the list is returned.
_score_connections(conns, job) ==
    [k \in DOMAIN conns |->
        [conns[k] EXCEPT !.relevance_score = Float(ScoreOf(conns[k], job))]]

\* key=lambda x: x.relevance_score or 0
SortKey(x) == IF x.relevance_score.t = "float" THEN x.relevance_score.x ELSE Float_0_0

\* InsertDescending, but x goes ahead of the elements whose key equals its own.
InsertDescending_ahead_of_equals(x, sorted) ==
    LET ahead == {k \in 0..Len(sorted) :
                    \A j \in 1..k : FLess(SortKey(x), SortKey(sorted[j]))}
        at == SetMax(ahead)
    IN  SubSeq(sorted, 1, at) \o <<x>> \o SubSeq(sorted, at + 1, Len(sorted))

\* sorted(..., reverse=True) is stable: x goes behind the elements whose key
\* is not smaller than its own.
InsertDescending(x, sorted) ==
    LET ahead == {k \in 0..Len(sorted) :
                    \A j \in 1..k : ~FLess(SortKey(sorted[j]), SortKey(x))}
        at == SetMax(ahead)
    IN  SubSeq(sorted, 1, at) \o <<x>> \o SubSeq(sorted, at + 1, Len(sorted))

RECURSIVE SortedDescending(_, _)
SortedDescending(rest, sorted) ==
    IF rest = <<>> THEN sorted
    ELSE SortedDescending(Tail(rest), InsertDescending(Head(rest), sorted))

\* The slice [:20].
TopLimit == 20

\* find_connections_enhanced(job) from line 618 on, search_result being
\* what _search_linkedin_connections returned to line 617.
find_connections_enhanced(search_result, job) ==
    LET scored_connections == _score_connections(<<>> \o search_result, job)
        ranked == SortedDescending(scored_connections, <<>>)
    IN  SubSeq(ranked, 1, IF Len(ranked) < TopLimit THEN Len(ranked) ELSE TopLimit)

\* The longest list of connections, the list of the test aside.
MaxContacts == 2

Str_SeniorSoftwareEngineer ==
    <<"S","e","n","i","o","r"," ","S","o","f","t","w","a","r","e"," ",
      "E","n","g","i","n","e","e","r">>
Str_EngineeringManager ==
    <<"E","n","g","i","n","e","e","r","i","n","g"," ","M","a","n","a","g","e","r">>
Str_MarketingManager ==
    <<"M","a","r","k","e","t","i","n","g"," ","M","a","n","a","g","e","r">>
Str_SeniorLeadEngineer ==
    <<"S","e","n","i","o","r"," ","L","e","a","d"," ","E","n","g","i","n","e","e","r">>
Str_LeadSeniorEngineer ==
    <<"L","e","a","d"," ","S","e","n","i","o","r"," ","E","n","g","i","n","e","e","r">>
Str_TechCorp == <<"T","e","c","h"," ","C","o","r","p">>
Str_OtherCorp == <<"O","t","h","e","r"," ","C","o","r","p">>

\* A job as the constructor gives it.
TargetJob(title, company) ==
    JobListing_init(JobKwargs(Str(title), Str(company), Str(<<"S","a","n"," ","F","r","a","n","c","i","s","c","o">>),
                              Str(Str_Desc), Absent, Absent))

\* The target jobs: the one of test_connection_scoring, one with three of
\* the keywords, and one whose company_name is empty.
TargetJobs ==
    { TargetJob(Str_SeniorSoftwareEngineer, Str_TechCorp),
      TargetJob(Str_SeniorLeadEngineer, Str_TechCorp),
      TargetJob(Str_EngineeringManager, <<>>) }

\* The object of one person in an answer, Absent for a key it lacks.
Person(name, title, company, relevance_score) ==
    Kwargs([name |-> name, title |-> title, company |-> company,
            relevance_score |-> relevance_score])

\* A contact as the constructor gives it.
Contact(name, title, company, relevance_score) ==
    ContactPerson_init(Person(Str(name), title, company, relevance_score))

\* The list of test_connection_scoring.
TestConnections ==
    << Contact(<<"J","o","h","n"," ","D","o","e">>,
               Str(Str_SeniorSoftwareEngineer), Str(Str_TechCorp), Absent),
       Contact(<<"J","a","n","e"," ","S","m","i","t","h">>,
               Str(Str_EngineeringManager), Str(Str_TechCorp), Absent),
       Contact(<<"B","o","b"," ","W","i","l","s","o","n">>,
               Str(Str_MarketingManager), Str(Str_OtherCorp), Absent) >>

\* The contacts: the three of the test, and contacts without a title or
\* company, with an empty one, in another case, and with a score they carry
\* from before (7.5, -1.0, 0.5).
Contacts ==
    {TestConnections[k] : k \in DOMAIN TestConnections} \cup
    { Contact(<<"A","n","n">>,
              Str(Str_SeniorSoftwareEngineer), Str(Str_OtherCorp),
              Float(Double(0, 1006632960, 0))),
      Contact(<<"R","a","j">>,
              Str(Upper(Str_SeniorLeadEngineer)), None, Float(Double(1, 134217728, 0))),
      Contact(<<"L","e","e">>,
              Str(Str_LeadSeniorEngineer), Str(Str_TechCorp \o <<" ","L","a","b","s">>), Float(Float_0_5)),
      Contact(<<"K","i","m">>, Absent, Str(Str_TechCorp), None),
      Contact(<<"P","a","t">>, Str(<<>>), Str(<<>>), Absent),
      Contact(<<"S","a","m">>, Str(Str_LeadSeniorEngineer), None, Absent) }

IdleScorer ==
    /\ connections = <<>>
    /\ target_job = NotConstructed
    /\ scored = <<>>
    /\ found = <<>>
    /\ linkedin_connections = <<>>
    /\ sc_pc = "idle"

\* A list of n contacts, longer than the slice when n is above TopLimit:
\* each with a name of its own, the titles and companies of the test's
\* contacts taking turns so that scores repeat.
LongConnections(n) ==
    [k \in 1..n |->
        Contact(<<"N","o",".", LowerChars[k]>>,
                Str(CASE k % 3 = 0 -> Str_MarketingManager
                      [] k % 3 = 1 -> Str_EngineeringManager
                      [] OTHER -> Str_SeniorSoftwareEngineer),
                IF k % 4 < 2 THEN Str(Str_TechCorp) ELSE Str(Str_OtherCorp),
                Absent)]

\* The objects of n people of whom LongConnections(n) are the contacts.
LongPeople(n) ==
    [k \in 1..n |->
        Person(Str(<<"N","o",".", LowerChars[k]>>),
               Str(CASE k % 3 = 0 -> Str_MarketingManager
                     [] k % 3 = 1 -> Str_EngineeringManager
                     [] OTHER -> Str_SeniorSoftwareEngineer),
               IF k % 4 < 2 THEN Str(Str_TechCorp) ELSE Str(Str_OtherCorp),
               Absent)]

\* The objects of the people of test_connection_scoring.
TestPeople ==
    << Person(Str(<<"J","o","h","n"," ","D","o","e">>),
              Str(Str_SeniorSoftwareEngineer), Str(Str_TechCorp), Absent),
       Person(Str(<<"J","a","n","e"," ","S","m","i","t","h">>),
              Str(Str_EngineeringManager), Str(Str_TechCorp), Absent),
       Person(Str(<<"B","o","b"," ","W","i","l","s","o","n">>),
              Str(Str_MarketingManager), Str(Str_OtherCorp), Absent) >>

Person_Ann ==
    Person(Str(<<"A","n","n">>), Str(Str_SeniorSoftwareEngineer), Str(Str_OtherCorp),
           Float(Double(0, 1006632960, 0)))
Person_Raj ==
    Person(Str(<<"R","a","j">>), Str(Upper(Str_SeniorLeadEngineer)), None,
           Float(Double(1, 134217728, 0)))
Person_Lee ==
    Person(Str(<<"L","e","e">>), Str(Str_LeadSeniorEngineer),
           Str(Str_TechCorp \o <<" ","L","a","b","s">>), Float(Float_0_5))
Person_Kim == Person(Str(<<"K","i","m">>), Absent, Str(Str_TechCorp), None)
Person_Pat == Person(Str(<<"P","a","t">>), Str(<<>>), Str(<<>>), Absent)
Person_Sam == Person(Str(<<"S","a","m">>), Str(Str_LeadSeniorEngineer), None, Absent)

\* The answers of the collaborator to one search of people: the kinds of
\* Outcome, the content a JSON array of the objects of people, among them
\* objects without a name, with an empty one, with a name or a score that
\* ContactPerson refuses, and elements that are no objects; a JSON object;
\* a JSON number; the empty JSON string.
PeopleOutcomes ==
    { Outcome("setup_error", FALSE, "none", <<>>, <<>>),
      Outcome("arun_error", FALSE, "none", <<>>, <<>>),
      Outcome("result", FALSE, "json_list", <<>>, TestPeople),
      Outcome("result", TRUE, "none", <<>>, <<>>),
      Outcome("result", TRUE, "text", <<"o","o","p","s">>, <<>>),
      Outcome("result", TRUE, "text_too_deep", DeepText, <<>>),
      Outcome("result", TRUE, "json_other", <<>>, <<>>),
      Outcome("result", TRUE, "json_str", <<>>, <<>>),
      Outcome("result", TRUE, "json_dict", <<>>, <<Person_Sam>>),
      Outcome("result", TRUE, "json_list", <<>>, <<>>),
      Outcome("result", TRUE, "json_list", <<>>, TestPeople),
      Outcome("result", TRUE, "json_list", <<>>, <<Person_Ann, Person_Raj>>),
      Outcome("result", TRUE, "json_list", <<>>,
              <<Person_Kim, Person(Absent, Str(Str_EngineeringManager), None, Absent),
                Person(Str(<<>>), None, None, Absent), Person_Pat>>),
      Outcome("result", TRUE, "json_list", <<>>,
              <<Person_Lee,
                Person(Str(<<"E","v","e">>), None, None, Str(<<"h","i","g","h">>)),
                Person_Sam>>),
      Outcome("result", TRUE, "json_list", <<>>,
              <<Person_Sam, Person(Num, None, None, Absent), Person_Lee>>),
      Outcome("result", TRUE, "json_list", <<>>,
              <<Person_Pat, NotADict("str"), Person_Kim>>),
      Outcome("result", TRUE, "json_list", <<>>, LongPeople(TopLimit - 1)),
      Outcome("result", TRUE, "json_list", <<>>, LongPeople(TopLimit + 1)) }

\* The loop of lines 673-676 over people_data, from element i on, out the
\* connections list: an element that is no object has no get
\* (AttributeError), an object whose name is missing or falsy is passed
\* over, ContactPerson raises ValidationError for the others it refuses.
\* What was appended before an exception stays in the list.
RECURSIVE PeopleLoop(_, _, _)
PeopleLoop(people_data, i, out) ==
    IF i > Len(people_data) THEN [raised |-> FALSE, connections |-> out]
    ELSE IF people_data[i].t # "dict" THEN [raised |-> TRUE, connections |-> out]
    ELSE IF Falsy(Get(people_data[i], "name", None))
    THEN PeopleLoop(people_data, i + 1, out)
    ELSE LET Appended(connection) ==
                 IF connection = ValidationError
                 THEN [raised |-> TRUE, connections |-> out]
                 ELSE PeopleLoop(people_data, i + 1, Append(out, connection))
         IN  Appended(ContactPerson_init(people_data[i]))

\* The try block of lines 667-683 for one answer of crawler.arun, out the
\* connections list: raised says that the except of line 682 caught an
\* exception, which skips the sleep of line 680.  JSONDecodeError is caught
\* at line 677 and skips nothing; iterating a JSON number raises TypeError,
\* the keys of a JSON object and the characters of a JSON string are
\* strings without a get, the empty JSON string has none.
SearchTerm(o, out) ==
    IF o.kind = "arun_error" THEN [raised |-> TRUE, connections |-> out]
    ELSE IF ~(o.success /\ Truthy(o.content))
    THEN [raised |-> FALSE, connections |-> out]
    ELSE IF o.content.kind = "text" THEN [raised |-> FALSE, connections |-> out]
    ELSE IF o.content.kind = "json_list" THEN PeopleLoop(o.content.items, 1, out)
    ELSE IF o.content.kind = "json_dict"
    THEN [raised |-> DOMAIN o.content.items[1].f # {}, connections |-> out]
    ELSE IF o.content.kind = "json_str"
    THEN [raised |-> o.content.s # <<>>, connections |-> out]
    ELSE [raised |-> TRUE, connections |-> out]

\* Before the call: "start" ahead of _score_connections(connections, job)
\* with a list of contacts, "find" ahead of find_connections_enhanced(job).
\* The call of find_connections_enhanced then is at
\*   "entering"  waiting for AsyncWebCrawler.__aenter__, line 640
\*   "term1", "term2"    waiting for crawler.arun of the search term
\*   "sleep1", "sleep2"  waiting for asyncio.sleep(5), line 680
\*   "exiting"   waiting for __aexit__ after the loop
\*   "failing"   waiting for __aexit__ with an exception in flight
\*   "found"     returned
\*   "raised"    left by an exception
\* and the call of _score_connections by itself is over at "scored".
InitScorer ==
    /\ sc_pc \in {"start", "find"}
    /\ connections \in
          IF sc_pc = "start"
          THEN UNION {[1..k -> Contacts] : k \in 0..MaxContacts}
                  \cup {TestConnections}
                  \cup {LongConnections(n) : n \in (TopLimit - 1)..(TopLimit + 2)}
          ELSE {<<>>}
    /\ target_job \in TargetJobs
    /\ scored = <<>>
    /\ found = <<>>
    /\ linkedin_connections = <<>>

\* scored_connections = finder._score_connections(connections, job): the
\* connections are changed in place and the same list is returned.
ScoreConnections ==
    /\ sc_pc = "start"
    /\ connections' = _score_connections(connections, target_job)
    /\ scored' = connections'
    /\ sc_pc' = "scored"
    /\ UNCHANGED <<target_job, found, linkedin_connections, notScorerVars>>

\* find_connections_enhanced(job) is called: lines 612-617 and 626-640, up
\* to the await of __aenter__ inside _search_linkedin_connections.
FindConnections ==
    /\ sc_pc = "find"
    /\ connections' = <<>>
    /\ linkedin_connections' = <<>>
    /\ sc_pc' = "entering"
    /\ UNCHANGED <<target_job, scored, found, notScorerVars>>

\* Line 640: the session opens, or __aenter__ raises; no try stands around
\* the async with, nor around the await of line 617.
EnterSession ==
    /\ sc_pc = "entering"
    /\ \E ok \in BOOLEAN : sc_pc' = IF ok THEN "term1" ELSE "raised"
    /\ UNCHANGED <<connections, target_job, scored, found, linkedin_connections,
                   notScorerVars>>

\* Lines 641-683 for one of the search terms of search_terms[:2], up to the
\* next await: building the strategy and the configuration stands outside
\* the try of line 667, so that its exception leaves the async with; an
\* exception caught at line 682 goes on with the next term at once.
SearchPeople ==
    /\ sc_pc \in {"term1", "term2"}
    /\ \E o \in PeopleOutcomes :
          IF o.kind = "setup_error"
          THEN /\ sc_pc' = "failing"
               /\ UNCHANGED linkedin_connections
          ELSE \E r \in {SearchTerm(o, linkedin_connections)} :
                  /\ linkedin_connections' = r.connections
                  /\ sc_pc' = IF sc_pc = "term1"
                              THEN (IF r.raised THEN "term2" ELSE "sleep1")
                              ELSE (IF r.raised THEN "exiting" ELSE "sleep2")
    /\ UNCHANGED <<connections, target_job, scored, found, notScorerVars>>

\* Line 680: the sleep is over, the loop goes on or ends.
SleepOver ==
    /\ sc_pc \in {"sleep1", "sleep2"}
    /\ sc_pc' = IF sc_pc = "sleep1" THEN "term2" ELSE "exiting"
    /\ UNCHANGED <<connections, target_job, scored, found, linkedin_connections,
                   notScorerVars>>

\* The session closes.  After the loop: __aexit__ raises, or line 685
\* returns the list and lines 618-624 extend connections by it, score them,
\* and return the twenty ranked first; the scores are written into the
\* contacts themselves, which the list of line 617 holds too.  With an
\* exception in flight the call is left by it.
ExitSession ==
    /\ sc_pc \in {"exiting", "failing"}
    /\ \E ok \in BOOLEAN :
          IF ok /\ sc_pc = "exiting"
          THEN /\ connections' = _score_connections(connections \o linkedin_connections,
                                                    target_job)
               /\ scored' = connections'
               /\ found' = find_connections_enhanced(linkedin_connections, target_job)
               /\ linkedin_connections' =
                      SubSeq(connections', Len(connections) + 1, Len(connections'))
               /\ sc_pc' = "found"
          ELSE /\ sc_pc' = "raised"
               /\ UNCHANGED <<connections, scored, found, linkedin_connections>>
    /\ UNCHANGED <<target_job, notScorerVars>>

-----------------------------------------------------------------------------
(* URL resolution: _resolve_url                                            *)

\* s.rstrip('/'): s without its trailing slashes.
rstrip_slash(s) ==
    SubSeq(s, 1, SetMax({k \in 0..Len(s) : k = 0 \/ s[k] # "/"}))

Str_http == <<"h","t","t","p">>
Str_https_colon == <<"h","t","t","p","s",":">>

\* _resolve_url(url, base_url), lines 601-608.
_resolve_url(u, b) ==
    IF StartsWith(u, Str_http) THEN u
    ELSE IF StartsWith(u, <<"/","/">>) THEN Str_https_colon \o u
    ELSE IF StartsWith(u, <<"/">>) THEN rstrip_slash(b) \o u
    ELSE rstrip_slash(b) \o <<"/">> \o u

\* The longest tail of a url the resolver is given after one of the prefixes.
MaxUrlLen == 2

Str_jobboard ==
    <<"h","t","t","p","s",":","/","/","j","o","b","b","o","a","r","d",".","c","o","m">>

\* What a url begins with: nothing, one slash, two, a scheme, the letters
\* of a scheme without one, a scheme in capitals.
UrlPrefixes ==
    {<<>>, <<"/">>, <<"/","/">>, Str_http, Str_http \o <<":","/","/">>,
     Str_https_colon \o <<"/","/">>, <<"f","t","p",":","/","/">>,
     <<"H","T","T","P",":","/","/">>}

\* The urls of test_url_resolution, and every prefix followed by a tail of
\* path letters and slashes.
Urls ==
    {p \o r : p \in UrlPrefixes,
              r \in UNION {[1..k -> {"a", "/"}] : k \in 0..MaxUrlLen}}
    \cup {Str_https_colon \o <<"/","/","e","x",".","c","o","m","/","j","o","b","/","1","2","3">>,
          <<"/","j","o","b","/","1","2","3">>,
          <<"/","/","c","d","n",".","e","x",".","c","o","m","/","j","o","b","/","1","2","3">>}

\* The base of the test, the same with trailing slashes and with a path, and
\* bases that are all slashes or empty.
Bases ==
    {Str_jobboard, Str_jobboard \o <<"/">>, Str_jobboard \o <<"/","/">>,
     Str_jobboard \o <<"/","j","o","b","s">>, <<"/">>, <<>>}

Unresolved == [t |-> "unresolved"]

IdleResolver == url = <<>> /\ base = <<>> /\ resolved = [t |-> "idle"]

InitResolver == url \in Urls /\ base \in Bases /\ resolved = Unresolved

\* The call self._resolve_url(url, base_url).
ResolveUrl ==
    /\ resolved = Unresolved
    /\ resolved' = Str(_resolve_url(url, base))
    /\ UNCHANGED <<url, base, notResolverVars>>

-----------------------------------------------------------------------------
(* Markdown tier, called on its own                                        *)

\* markdown_content.split('\n'), line 318: the pieces between the newlines,
\* one more than there are newlines; acc is the piece being read.
RECURSIVE split_newline_from(_, _, _)
split_newline_from(text, k, acc) ==
    IF k > Len(text) THEN <<acc>>
    ELSE IF text[k] = "\n" THEN <<acc>> \o split_newline_from(text, k + 1, <<>>)
    ELSE split_newline_from(text, k + 1, Append(acc, text[k]))

split_newline(text) == split_newline_from(text, 1, <<>>)

\* The most lines of a markdown text handed to the tier.
MaxLines == 4

\* Lines of a page: empty and blank ones, a padded title, a title in
\* capitals, a company, links and buttons in either case.
MarkdownLines ==
    { <<>>,
      <<" ","Q","A"," ","A","n","a","l","y","s","t"," ">>,
      <<"M","A","N","A","G","E","R">>,
      <<"A","c","m","e","\t">>,
      <<"h","t","t","p",":","/","/","a">>,
      <<"w","w","w",".","a">>,
      <<"a","p","p","l","y">>,
      <<"A","p","p","l","y">> }

\* "\n".join(lines)
RECURSIVE JoinLines(_)
JoinLines(lines) ==
    IF lines = <<>> THEN <<>>
    ELSE IF Len(lines) = 1 THEN lines[1]
    ELSE lines[1] \o <<"\n">> \o JoinLines(Tail(lines))

IdleMarkdown == markdown_content = <<>> /\ markdown_jobs = <<>> /\ md_pc = "idle"

InitMarkdown ==
    /\ markdown_content \in
          {JoinLines(ls) : ls \in UNION {[1..k -> MarkdownLines] : k \in 0..MaxLines}}
    /\ markdown_jobs = <<>>
    /\ md_pc = "start"

\* The call self._extract_from_markdown(markdown_content, site_name).
ExtractFromMarkdown ==
    /\ md_pc = "start"
    /\ markdown_jobs' = _extract_from_markdown(split_newline(markdown_content),
                                               ConfiguredBoards[1])
    /\ md_pc' = "extracted"
    /\ UNCHANGED <<markdown_content, notMarkdownVars>>

-----------------------------------------------------------------------------
(* Specifications                                                          *)

vars == <<validatorVars, dedupVars, searchVars, traceVars, recordVars, scorerVars,
         resolverVars, markdownVars>>

InitSpecValidator == InitValidator /\ IdleDedup /\ IdleSearch /\ NoLog /\ IdleRecord /\ IdleScorer /\ IdleResolver /\ IdleMarkdown

NextValidator == Validate

SpecValidator == InitSpecValidator /\ [][NextValidator]_vars

InitSpecDedup == InitDedup /\ IdleValidator /\ IdleSearch /\ NoLog /\ IdleRecord /\ IdleScorer /\ IdleResolver /\ IdleMarkdown

NextDedup == AddJob \/ DedupOnce \/ DedupAgain

SpecDedup == InitSpecDedup /\ [][NextDedup]_vars

Init == InitSearch /\ IdleValidator /\ IdleDedup /\ NoLog /\ IdleRecord /\ IdleScorer /\ IdleResolver /\ IdleMarkdown

Next ==
    \/ Begin
    \/ StealthCall
    \/ StealthCollect
    \/ StealthError
    \/ StealthSleep
    \/ StartBatches
    \/ BatchCall
    \/ BatchCollect
    \/ BatchSleep
    \/ Return
    \/ \E n \in DOMAIN task : Enter(n)
    \/ \E n \in DOMAIN task : Tier1(n)
    \/ \E n \in DOMAIN task : Tier2(n)
    \/ \E n \in DOMAIN task : Exit(n)

Spec == Init /\ [][Next]_vars

\* The most boards of a finder whose search is followed to its end.
MaxFairBoards == 2

\* The control flow of search_all_job_boards.
Control ==
    \/ Begin
    \/ StealthCall
    \/ StealthCollect
    \/ StealthError
    \/ StealthSleep
    \/ StartBatches
    \/ BatchCall
    \/ BatchCollect
    \/ BatchSleep
    \/ Return

\* A step of the search_job_board call of source n.
TaskStep(n) ==
    /\ n \in DOMAIN task
    /\ (Enter(n) \/ Tier1(n) \/ Tier2(n) \/ Exit(n))

\* The event loop runs whatever is ready, every sleep ends, and every call
\* of a collaborator returns or raises: the control flow and each call
\* that can take a step eventually take one.
Fairness ==
    /\ WF_vars(Control)
    /\ \A k \in 1..MaxFairBoards : WF_vars(TaskStep(ConfiguredBoards[k].name))

\* A finder with at most MaxFairBoards boards.
InitFair == Init /\ Len(job_boards) <= MaxFairBoards

SpecFair == InitFair /\ [][Next]_vars /\ Fairness

InitSpecBoard == InitBoard /\ IdleValidator /\ IdleDedup /\ IdleRecord /\ IdleScorer /\ IdleResolver /\ IdleMarkdown

NextBoard ==
    \/ \E n \in DOMAIN task : Enter(n)
    \/ \E n \in DOMAIN task : Tier1Logged(n, BoardTier1Outcomes)
    \/ \E n \in DOMAIN task : Tier2Logged(n)
    \/ \E n \in DOMAIN task : Exit(n)

SpecBoard == InitSpecBoard /\ [][NextBoard]_vars

InitSpecEndToEnd == InitThreeBoards /\ IdleValidator /\ IdleDedup /\ IdleRecord /\ IdleScorer /\ IdleResolver /\ IdleMarkdown

NextEndToEnd ==
    \/ Begin
    \/ StealthCall
    \/ StealthCollect
    \/ StealthError
    \/ StealthSleep
    \/ StartBatches
    \/ BatchCall
    \/ BatchCollect
    \/ BatchSleep
    \/ Return
    \/ \E n \in DOMAIN task : Enter(n)
    \/ \E n \in DOMAIN task : Tier1Logged(n, OneObjectOutcomes)
    \/ \E n \in DOMAIN task : Tier2Logged(n)
    \/ \E n \in DOMAIN task : Exit(n)

SpecEndToEnd == InitSpecEndToEnd /\ [][NextEndToEnd]_vars

NextPipeline ==
    \/ Begin
    \/ StealthCall
    \/ StealthCollect
    \/ StealthError
    \/ StealthSleep
    \/ StartBatches
    \/ BatchCall
    \/ BatchCollect
    \/ BatchSleep
    \/ Return
    \/ \E n \in DOMAIN task : Enter(n)
    \/ \E n \in DOMAIN task : Tier1Logged(n, PipelineOutcomes)
    \/ \E n \in DOMAIN task : Tier2Logged(n)
    \/ \E n \in DOMAIN task : Exit(n)

SpecPipeline == InitSpecEndToEnd /\ [][NextPipeline]_vars

InitSpecRecord == InitRecord /\ IdleValidator /\ IdleDedup /\ IdleSearch /\ NoLog /\ IdleScorer /\ IdleResolver /\ IdleMarkdown

NextRecord == ConstructJobListing \/ ConstructContactPerson

SpecRecord == InitSpecRecord /\ [][NextRecord]_vars

InitSpecScorer ==
    InitScorer /\ IdleValidator /\ IdleDedup /\ IdleSearch /\ NoLog /\ IdleRecord /\ IdleResolver /\ IdleMarkdown

NextScorer ==
    \/ ScoreConnections
    \/ FindConnections
    \/ EnterSession
    \/ SearchPeople
    \/ SleepOver
    \/ ExitSession

SpecScorer == InitSpecScorer /\ [][NextScorer]_vars

InitSpecResolver ==
    InitResolver /\ IdleValidator /\ IdleDedup /\ IdleSearch /\ NoLog /\ IdleRecord
        /\ IdleScorer /\ IdleMarkdown

NextResolver == ResolveUrl

SpecResolver == InitSpecResolver /\ [][NextResolver]_vars

InitSpecMarkdown ==
    InitMarkdown /\ IdleValidator /\ IdleDedup /\ IdleSearch /\ NoLog /\ IdleRecord
        /\ IdleScorer /\ IdleResolver

NextMarkdown == ExtractFromMarkdown

SpecMarkdown == InitSpecMarkdown /\ [][NextMarkdown]_vars

-----------------------------------------------------------------------------
(* Validator claims, checked under SpecValidator                           *)

\* The key is missing from the mapping, or its value is a string that is
\* empty once trimmed.
MissingOrBlank(d, k) ==
    \/ ~HasKey(d, k)
    \/ d.f[k].t = "str" /\ Strip(d.f[k].s) = <<>>

\* The value of the key is a string that is not empty once trimmed.
PresentNonBlank(d, k) ==
    /\ HasKey(d, k)
    /\ d.f[k].t = "str"
    /\ Strip(d.f[k].s) # <<>>

\* The trimmed, lower-cased title contains a phrase of the configured list.
HasSpamPhrase(d) ==
    \E i \in DOMAIN spam_keywords :
        Contains(spam_keywords[i], Lower(Strip(d.f["job_title"].s)))

\* The mapping with every item but job_title and company_name removed.
TitleAndCompanyOnly(d) ==
    Dict([k \in DOMAIN d.f \cap {"job_title", "company_name"} |-> d.f[k]])

\* C1: a mapping whose job_title or company_name is missing, or empty after
\* trimming, is answered with false.
C1_MissingOrBlankRejected ==
    ( /\ valid # "idle"
      /\ job_data.t = "dict"
      /\ MissingOrBlank(job_data, "job_title") \/ MissingOrBlank(job_data, "company_name") )
    => valid = "False"

\* C2: a mapping with a non-empty company and a title whose trimmed,
\* lower-cased form contains a phrase of the spam list ("similar jobs", ...,
\* "login", "register") is answered with false.
C2_SpamTitleRejected ==
    ( /\ valid # "idle"
      /\ job_data.t = "dict"
      /\ PresentNonBlank(job_data, "job_title")
      /\ PresentNonBlank(job_data, "company_name")
      /\ HasSpamPhrase(job_data) )
    => valid = "False"

\* C3: a candidate that is not a mapping is answered with false; a mapping
\* whose trimmed job_title and company_name are non-empty and whose title
\* holds no spam phrase is answered with true; and the answer is the one
\* given to the mapping stripped of every other field.
C3_ValidatorDecision ==
    valid # "idle" =>
        /\ job_data.t # "dict" => valid = "False"
        /\ ( /\ job_data.t = "dict"
             /\ PresentNonBlank(job_data, "job_title")
             /\ PresentNonBlank(job_data, "company_name")
             /\ ~HasSpamPhrase(job_data) )
           => valid = "True"
        /\ job_data.t = "dict" => valid = _is_valid_job_data(TitleAndCompanyOnly(job_data))

\* C3's case: a mapping with a padded, mixed-case title and a null location
\* has been accepted.
C3_Witness ==
    /\ valid = "True"
    /\ HasKey(job_data, "location")
    /\ job_data.f["location"] = None
    /\ job_data.f["job_title"].s # Lower(Strip(job_data.f["job_title"].s))

-----------------------------------------------------------------------------
(* Deduplicator claims, checked under SpecDedup                            *)

\* A string trimmed and lower-cased.
Fold(s) == Lower(Strip(s))

\* The identity key: (lower-cased trimmed title, lower-cased trimmed company,
\* lower-cased trimmed location or the empty string).
IdentityKey(job) == <<Fold(job.job_title), Fold(job.company_name), Fold(job.location)>>

\* The records of L (whose oid is their position) that are the first of L
\* to carry their identity key, in the order of L.
FirstOccurrences(L) ==
    SelectSeq(L, LAMBDA r :
        \A j \in 1..(r.oid - 1) : IdentityKey(L[j]) # IdentityKey(r))

Oids(L) == {L[i].oid : i \in DOMAIN L}

\* C4: the output is the subsequence of the input made of the records that
\* are the first, in input order, to carry their identity key.
C4_FirstOccurrenceWins ==
    dd_pc # "start" => unique_jobs = FirstOccurrences(jobs)

\* C4's case: the second of three records repeated the key of the first and
\* was dropped, the third was kept behind the first.
C4_Witness ==
    /\ dd_pc = "once"
    /\ Len(jobs) = 3
    /\ jobs[1] # jobs[2]
    /\ Oids(unique_jobs) = {1, 3}
    /\ unique_jobs[2].oid = 3

\* C5: dedupe(dedupe(L)) = dedupe(L), and dedupe(L) is no longer than L.
C5_IdempotentAndNoLonger ==
    /\ dd_pc # "start" => Len(unique_jobs) <= Len(jobs)
    /\ dd_pc = "twice" => unique_again = unique_jobs

\* C5's case: a list that lost a record has been deduplicated twice.
C5_Witness ==
    /\ dd_pc = "twice"
    /\ Len(jobs) = 3
    /\ Len(unique_jobs) = 2

\* Two records that differ at most in the letter case or the surrounding
\* whitespace of title, company and location (and in any other field).
SameUpToCaseAndWhitespace(a, b) ==
    /\ Fold(a.job_title) = Fold(b.job_title)
    /\ Fold(a.company_name) = Fold(b.company_name)
    /\ Fold(a.location) = Fold(b.location)

\* C6: of two such records the later one is not in the output, and the
\* output holds exactly one record of their kind.
C6_CaseAndWhitespaceCollapse ==
    dd_pc # "start" =>
        \A i, j \in DOMAIN jobs :
            (i < j /\ SameUpToCaseAndWhitespace(jobs[i], jobs[j])) =>
                /\ jobs[j].oid \notin Oids(unique_jobs)
                /\ Cardinality({k \in DOMAIN unique_jobs :
                       SameUpToCaseAndWhitespace(unique_jobs[k], jobs[i])}) = 1

\* C6's case: two records that differ in the case and the whitespace of all
\* three key fields and in the description were given, the first was kept.
C6_Witness ==
    /\ dd_pc = "once"
    /\ Len(jobs) = 2
    /\ SameUpToCaseAndWhitespace(jobs[1], jobs[2])
    /\ jobs[1].job_title # jobs[2].job_title
    /\ jobs[1].company_name # jobs[2].company_name
    /\ jobs[1].location # jobs[2].location
    /\ jobs[1].job_description # jobs[2].job_description
    /\ Oids(unique_jobs) = {1}

-----------------------------------------------------------------------------
(* Orchestrator claims, checked under Spec                                 *)

Range(seq) == {seq[k] : k \in DOMAIN seq}

BoardNames == {job_boards[k].name : k \in DOMAIN job_boards}

\* The source a record was extracted from: the site its extraction was
\* called with.
ExtractedFrom(r) == r.oid[1]

\* What a source's search handed to the orchestrator: the list it returned,
\* nothing when it raised.
Contribution(n) == IF task[n].pc = "returned" THEN task[n].jobs ELSE <<>>

\* The records of the sources, all of them.
SourceRecords == UNION {Range(Contribution(n)) : n \in DOMAIN task}

\* The records of a list that were extracted from source n, in their order.
From(L, n) == SelectSeq(L, LAMBDA r : ExtractedFrom(r) = n)

\* The positions of a list that carry the identity key of r.
Carrying(L, r) == {k \in DOMAIN L : IdentityKey(L[k]) = IdentityKey(r)}

\* C7: the returned list holds records of the sources only, no two of them
\* with the same identity key, and the identity key of every record a source
\* produced exactly once.
C7_ReturnedIsDeduplicatedConcatenation ==
    pc = "done" =>
        /\ Range(returned) \subseteq SourceRecords
        /\ \A r \in Range(returned) : Cardinality(Carrying(returned, r)) = 1
        /\ \A r \in SourceRecords : Cardinality(Carrying(returned, r)) = 1

\* C7's case: two sources produced records with the same identity key in
\* different spelling, one of them a second record too; the search returned
\* the first source's record and the second record.
C7_Witness ==
    /\ pc = "done"
    /\ Len(all_jobs) = 3
    /\ Len(returned) = 2
    /\ \E a, b \in DOMAIN all_jobs :
          /\ ExtractedFrom(all_jobs[a]) # ExtractedFrom(all_jobs[b])
          /\ IdentityKey(all_jobs[a]) = IdentityKey(all_jobs[b])
          /\ all_jobs[a].job_title # all_jobs[b].job_title
    /\ ExtractedFrom(returned[1]) # ExtractedFrom(returned[2])

\* C8: of the batched sources, the one whose search raised has no record
\* among the collected ones, every other one has exactly the records its
\* search returned, and outside the gathering of a batch no search of a
\* batched source is left unfinished.
C8_FailureStaysWithItsSource ==
    \A k \in DOMAIN regular_boards :
        LET n == regular_boards[k].name
        IN  /\ pc = "done" =>
                /\ task[n].pc \in {"returned", "raised"}
                /\ From(all_jobs, n) = Contribution(n)
            /\ pc # "gather" => task[n].pc \in {"idle", "returned", "raised"}

\* C8's case: three regular sources in batches of two; the search of the
\* first raised after it had extracted, its sibling and the source of the
\* second batch returned records, and those were collected.
C8_Witness ==
    /\ pc = "done"
    /\ max_parallel = 2
    /\ Len(regular_boards) = 3
    /\ task[regular_boards[1].name].pc = "raised"
    /\ task[regular_boards[1].name].tier1 = 1
    /\ task[regular_boards[2].name].pc = "returned"
    /\ Len(task[regular_boards[2].name].jobs) = 2
    /\ task[regular_boards[3].name].pc = "returned"
    /\ Len(task[regular_boards[3].name].jobs) = 1
    /\ Len(all_jobs) = 3

\* C9: with a concurrency limit of at least 1 the search never ends with an
\* exception, and when no call of a collaborator answered with success the
\* list returned is empty.
C9_NoFailureIsFatal ==
    /\ max_parallel >= 1 => pc # "raised"
    /\ (pc = "done" /\ ~any_success) => returned = <<>>

\* C9's case: a stealth source whose two tiers failed, a stealth source
\* whose session did not open and a regular source whose tier 1 failed; the
\* search returned the empty list.
C9_Witness ==
    /\ pc = "done"
    /\ ~any_success
    /\ max_parallel >= 1
    /\ Len(stealth_boards) = 2
    /\ Len(regular_boards) = 1
    /\ task[stealth_boards[1].name].pc = "returned"
    /\ task[stealth_boards[1].name].tier2 = 1
    /\ task[stealth_boards[2].name].pc = "raised"
    /\ task[regular_boards[1].name].pc = "returned"
    /\ task[regular_boards[1].name].tier1 = 1
    /\ returned = <<>>

\* C10: every returned record carries the name of the configured source it
\* was extracted from and the query URL of that source.
C10_ReturnedRecordsAreStamped ==
    pc = "done" =>
        \A r \in Range(returned) :
            /\ ExtractedFrom(r) \in BoardNames
            /\ r.source_site = NameStr(ExtractedFrom(r))
            /\ r.source_url = Str(search_url(BoardNamed(ExtractedFrom(r)),
                                             keywords, search_location))

\* C10's case: the search returned two records of Indeed behind one of
\* LinkedIn, each with the name and the query URL of its source; the
\* record of LinkedIn was made from an object that named another source.
C10_Witness ==
    /\ pc = "done"
    /\ Len(returned) = 3
    /\ ExtractedFrom(returned[1]) = "LinkedIn"
    /\ returned[1].job_description = Str_Elsewhere
    /\ returned[1].source_site = Str(<<"L","i","n","k","e","d","I","n">>)
    /\ returned[1].source_url =
          Str(<<"h","t","t","p","s",":","/","/","w","w","w",".","l","i","n",
                "k","e","d","i","n",".","c","o","m","/","j","o","b","s","/",
                "s","e","a","r","c","h","/","?","k","e","y","w","o","r","d",
                "s","=","c","%","2","3","+","d","e","v","&","l","o","c","a",
                "t","i","o","n","=","N","e","w","+","Y","o","r","k","%","2",
                "C","+","N","Y","&","f","_","T","P","R","=","r","8","6","4",
                "0","0">>)
    /\ ExtractedFrom(returned[2]) = "Indeed"
    /\ ExtractedFrom(returned[3]) = "Indeed"
    /\ returned[3].source_site = Str(<<"I","n","d","e","e","d">>)
    /\ returned[3].source_url =
          Str(<<"h","t","t","p","s",":","/","/","w","w","w",".","i","n","d",
                "e","e","d",".","c","o","m","/","j","o","b","s","?","q","=",
                "c","%","2","3","+","d","e","v","&","l","=","N","e","w","+",
                "Y","o","r","k","%","2","C","+","N","Y","&","f","r","o","m",
                "a","g","e","=","1","&","s","o","r","t","=","d","a","t","e">>)

-----------------------------------------------------------------------------
(* Tier claims, checked under SpecBoard                                    *)

\* The entries of a source's log that belong to tier k.
EntriesOf(n, k) == {e \in Range(log[n]) : e.tier = k}

\* The response of the collaborator is empty: no content, or only whitespace.
EmptyResponse(o) ==
    \/ o.content.kind = "none"
    \/ o.content.kind \in {"text", "text_too_deep", "json_too_long"} /\ Blank(o.content.s)

\* The response is not empty and is no JSON.
UnparseableResponse(o) ==
    o.content.kind \in {"text", "text_too_deep"} /\ ~Blank(o.content.s)

\* Tier 1 was answered and returned no record without an exception of the
\* collaborator: empty content, no success status, or a JSON document none
\* of whose elements became a record.
ReturnedNormallyWithNothing(e) ==
    /\ e.tier = 1
    /\ e.answer.kind = "result"
    /\ \/ ~e.answer.success
       \/ EmptyResponse(e.answer)
       \/ e.answer.content.kind \in {"json_list", "json_dict", "json_other"} /\ e.jobs = <<>>
       \/ e.answer.content.kind \in {"text_too_deep", "json_too_long"}

\* C11: tier 2 ran only behind a tier 1 that raised; tier 3 ran only on a
\* response that is not empty and does not parse; a tier 1 that returned
\* normally with nothing was followed by neither.
C11_TierSelection ==
    \A n \in DOMAIN log :
        /\ \A k \in DOMAIN log[n] :
              log[n][k].tier = 2 => (k = 2 /\ log[n][1].tier = 1 /\ log[n][1].raised)
        /\ \A e \in EntriesOf(n, 1) :
              /\ e.tier3 => (e.answer.kind = "result" /\ UnparseableResponse(e.answer))
              /\ ReturnedNormallyWithNothing(e) => (~e.tier3 /\ EntriesOf(n, 2) = {})
        /\ task[n].tier2 = Cardinality(EntriesOf(n, 2))

\* C11's case: the search of a stealth board has returned; its tier 1
\* raised and tier 2 ran behind it and found two jobs.
C11_Witness ==
    \E n \in DOMAIN log :
        /\ task[n].pc = "returned"
        /\ Len(log[n]) = 2
        /\ log[n][1].tier = 1 /\ log[n][1].raised
        /\ log[n][2].tier = 2
        /\ Len(task[n].jobs) = 2

\* A role-indicating substring occurs in the text, whatever its case.
HasRoleIndicator(text) ==
    \E i \in DOMAIN job_patterns : Contains(Lower(job_patterns[i]), Lower(text))

\* The one record tier 3 makes up for a site.
IsSynthetic(job, n) ==
    /\ job.job_title =
          <<"J","o","b"," ","f","o","u","n","d"," ","o","n"," ">> \o BoardNamed(n).chars
    /\ job.company_name =
          <<"C","o","m","p","a","n","y"," ","n","a","m","e"," ","n","o","t"," ",
            "e","x","t","r","a","c","t","e","d">>

\* Tier 1 ran tier 3 on the response and raised nothing; it returned the
\* one synthetic record when a role-indicating substring occurs in the
\* response, whatever its case, and nothing otherwise.
FellBack(e, n) ==
    /\ e.tier3
    /\ ~e.raised
    /\ Len(e.jobs) <= 1
    /\ Len(e.jobs) = 1 <=> HasRoleIndicator(e.answer.content.s)
    /\ \A k \in DOMAIN e.jobs : IsSynthetic(e.jobs[k], n)

\* C12: a tier 1 answered with success by a response that is not empty and
\* is no JSON ran tier 3 and raised nothing; it returned the one synthetic
\* record when a role-indicating substring occurs in the response, whatever
\* its case, and nothing otherwise.
C12_UnparseableResponseFallsBack ==
    \A n \in DOMAIN log :
        \A e \in EntriesOf(n, 1) :
            (e.answer.kind = "result" /\ e.answer.success /\ UnparseableResponse(e.answer)) =>
                FellBack(e, n)

\* The part of C12 that holds: a response that json.loads rejects with
\* JSONDecodeError falls back to tier 3.
DecodeErrorFallsBack ==
    \A n \in DOMAIN log :
        \A e \in EntriesOf(n, 1) :
            ( /\ e.answer.kind = "result"
              /\ e.answer.success
              /\ e.answer.content.kind = "text"
              /\ ~Blank(e.answer.content.s) ) => FellBack(e, n)

\* The response "Hiring an Engineer" made tier 3 return the synthetic
\* record, and the search returned it.
FellBackOnce ==
    \E n \in DOMAIN log :
        /\ task[n].pc = "returned"
        /\ Len(log[n]) = 1
        /\ log[n][1].tier3
        /\ HasRoleIndicator(log[n][1].answer.content.s)
        /\ log[n][1].answer.content.s # Lower(log[n][1].answer.content.s)
        /\ Len(task[n].jobs) = 1
        /\ IsSynthetic(task[n].jobs[1], n)

\* The element passes the validator and a record can be constructed from it.
Survives(item) ==
    /\ _is_valid_job_data(item) = "True"
    /\ Constructible(RepairLocation(item))

\* The records are those of the elements, one by one.
RecordsOf(js, items) ==
    /\ Len(js) = Len(items)
    /\ \A k \in DOMAIN js :
          /\ js[k].job_title = items[k].f["job_title"].s
          /\ js[k].company_name = items[k].f["company_name"].s
          /\ js[k].job_description = items[k].f["job_description"].s

\* C13: a tier 1 answered with success by a JSON array returned the records
\* of exactly the elements that pass the validator and construction, in the
\* order of the array, whatever the other elements are.
C13_BadElementNeverAbortsBatch ==
    \A n \in DOMAIN log :
        \A e \in EntriesOf(n, 1) :
            ( /\ e.answer.kind = "result"
              /\ e.answer.success
              /\ e.answer.content.kind = "json_list" ) =>
                RecordsOf(e.jobs, SelectSeq(e.answer.content.items, Survives))

-----------------------------------------------------------------------------
(* End-to-end claim, checked under SpecEndToEnd                            *)

\* The source's search returned, and tier 1 had been answered with a JSON
\* array holding exactly one job object.
ReturnedOneObject(n) ==
    /\ task[n].pc = "returned"
    /\ Len(log[n]) = 1
    /\ log[n][1].answer.kind = "result"
    /\ log[n][1].answer.success
    /\ log[n][1].answer.content.kind = "json_list"
    /\ Len(log[n][1].answer.content.items) = 1
    /\ log[n][1].answer.content.items[1].t = "dict"

\* The one object a source answered with.
ObjectOf(n) == log[n][1].answer.content.items[1]

\* The identity key of a job object.
ObjectKey(item) ==
    <<Fold(item.f["job_title"].s), Fold(item.f["company_name"].s),
      Fold(Get(item, "location", None).s)>>

\* The object has a spam title: one that contains a phrase of the
\* configured list.
SpamObject(item) ==
    \E k \in DOMAIN spam_keywords : Contains(spam_keywords[k], Fold(item.f["job_title"].s))

\* The object has a title with "register" as its only spam phrase.
RegisterObject(item) ==
    /\ SpamObject(item)
    /\ ~\E k \in DOMAIN spam_indicators :
           Contains(spam_indicators[k], Fold(item.f["job_title"].s))

\* The scenario: three sources, each answered with one job object, the
\* objects with pairwise different identity keys, one of them with a spam
\* title and the other two fit for a record.
ThreeSourcesOneSpam ==
    /\ pc = "done"
    /\ Cardinality(DOMAIN task) = 3
    /\ \A n \in DOMAIN task : ReturnedOneObject(n)
    /\ \A n, m \in DOMAIN task : n # m => ObjectKey(ObjectOf(n)) # ObjectKey(ObjectOf(m))
    /\ Cardinality({n \in DOMAIN task : SpamObject(ObjectOf(n))}) = 1
    /\ \A n \in DOMAIN task :
          ~SpamObject(ObjectOf(n)) =>
              /\ PresentNonBlank(ObjectOf(n), "job_title")
              /\ PresentNonBlank(ObjectOf(n), "company_name")
              /\ Constructible(RepairLocation(ObjectOf(n)))

\* C14: in the scenario the search returns exactly two records, those of the
\* two sources without the spam object, each with the name of its source.
C14_EndToEnd ==
    ThreeSourcesOneSpam =>
        /\ Len(returned) = 2
        /\ {ExtractedFrom(returned[k]) : k \in DOMAIN returned} =
               {n \in DOMAIN task : ~SpamObject(ObjectOf(n))}
        /\ \A k \in DOMAIN returned :
              /\ returned[k].source_site = NameStr(ExtractedFrom(returned[k]))
              /\ returned[k].job_title = ObjectOf(ExtractedFrom(returned[k])).f["job_title"].s

\* The scenario with a spam phrase other than "register": there the two
\* records are returned.
EndToEndOtherPhrases ==
    (ThreeSourcesOneSpam /\ \A n \in DOMAIN task : ~RegisterObject(ObjectOf(n))) =>
        /\ Len(returned) = 2
        /\ \A k \in DOMAIN returned :
              /\ ~SpamObject(ObjectOf(ExtractedFrom(returned[k])))
              /\ returned[k].source_site = NameStr(ExtractedFrom(returned[k]))

-----------------------------------------------------------------------------
(* Record-model claims, checked under SpecRecord                           *)

\* The keyword argument k is missing, or is the empty string.
MissingOrEmpty(kw, k) == ~HasKey(kw, k) \/ kw.f[k] = Str(<<>>)

\* C15: constructing a JobListing fails when job_title or company_name is
\* missing or empty, constructing a ContactPerson fails when name is missing
\* or empty, and so every constructed JobListing has a non-empty job_title
\* and a non-empty company_name.
C15_ConstructionRejectsEmpty ==
    built # NotConstructed =>
        /\ ( /\ record_cls = "JobListing"
             /\ \/ MissingOrEmpty(kwargs, "job_title")
                \/ MissingOrEmpty(kwargs, "company_name") ) => built = ValidationError
        /\ ( record_cls = "ContactPerson" /\ MissingOrEmpty(kwargs, "name") ) =>
                built = ValidationError
        /\ built.status = "JobListing" =>
                built.job_title # <<>> /\ built.company_name # <<>>

\* The part of C15 the construction does keep: a missing required field, or
\* one that is not a string, makes the construction fail.
MissingFieldRejected ==
    built # NotConstructed =>
        /\ ( /\ record_cls = "JobListing"
             /\ \E k \in RequiredFields : ~HasKey(kwargs, k) \/ kwargs.f[k].t # "str" ) =>
                built = ValidationError
        /\ ( /\ record_cls = "ContactPerson"
             /\ (~HasKey(kwargs, "name") \/ kwargs.f["name"].t # "str") ) =>
                built = ValidationError

\* The elements of a finite set of numbers, ascending.
RECURSIVE Ascending(_)
Ascending(S) ==
    IF S = {} THEN <<>> ELSE <<SetMin(S)>> \o Ascending(S \ {SetMin(S)})

\* What the text promises for a delimiter-separated string: cut at every
\* comma and every semicolon, trim each piece, drop the empty ones, keep the
\* order.
ExpectedTokens(v) ==
    LET cuts == Ascending({0, Len(v) + 1} \cup {i \in DOMAIN v : v[i] \in {",", ";"}})
        pieces == [k \in 1..(Len(cuts) - 1) |->
                      Strip(SubSeq(v, cuts[k] + 1, cuts[k + 1] - 1))]
    IN  SelectSeq(pieces, LAMBDA x : x # <<>>)

\* The keyword argument k was given as a string.
GivenAsString(k) == HasKey(kwargs, k) /\ kwargs.f[k].t = "str"

\* What the list field k of the constructed model has to be.
ParsedAsPromised(k, field) ==
    GivenAsString(k) =>
        /\ field = ExpectedTokens(kwargs.f[k].s)
        /\ \A i \in DOMAIN field : Strip(field[i]) # <<>> /\ Strip(field[i]) = field[i]
        /\ \A A \in SkillTokens, B \in SkillTokens, C \in SkillTokens :
              kwargs.f[k].s = ListedAs(A, B, C) => field = <<A, B, C>>

\* C16: a JobListing constructed with required_skills or benefits given as a
\* string holds in that field the string cut at commas and semicolons, each
\* token trimmed, empty tokens dropped, order kept; "A, B; C" gives
\* [A, B, C], and no token is empty or whitespace-only.
C16_ListFieldsParsed ==
    ( /\ record_cls = "JobListing"
      /\ built # NotConstructed
      /\ GivenAsString("required_skills") \/ GivenAsString("benefits") ) =>
        /\ built.status = "JobListing"
        /\ ParsedAsPromised("required_skills", built.required_skills)
        /\ ParsedAsPromised("benefits", built.benefits)

C16_Witness ==
    /\ built.status = "JobListing"
    /\ GivenAsString("required_skills")
    /\ kwargs.f["required_skills"].s =
          <<"P","y","t","h","o","n",","," ",
            "S","t","o","c","k"," ","o","p","t","i","o","n","s",";"," ","A","W","S">>
    /\ built.required_skills =
          << <<"P","y","t","h","o","n">>,
             <<"S","t","o","c","k"," ","o","p","t","i","o","n","s">>,
             <<"A","W","S">> >>

-----------------------------------------------------------------------------
(* Scorer claims, checked under SpecScorer                                 *)

\* _score_connections has returned, directly or inside
\* find_connections_enhanced.
Scored == sc_pc \in {"scored", "found"}

\* The contact has a title (a company): the field is a non-empty string.
HasText(v) == v.t = "str" /\ v.s # <<>>

RoleKeywords ==
    { <<"e","n","g","i","n","e","e","r">>, <<"d","e","v","e","l","o","p","e","r">>,
      <<"m","a","n","a","g","e","r">>, <<"d","i","r","e","c","t","o","r">>,
      <<"l","e","a","d">>, <<"s","e","n","i","o","r">> }

\* 1 when the contact's title contains the job's title, both lower-cased.
TitleMatch(c, j) ==
    IF HasText(c.title) /\ Contains(Lower(j.job_title), Lower(c.title.s)) THEN 1 ELSE 0

\* The number of role keywords in both lower-cased titles.
SharedKeywords(c, j) ==
    IF HasText(c.title)
    THEN Cardinality({w \in RoleKeywords :
                        Contains(w, Lower(c.title.s)) /\ Contains(w, Lower(j.job_title))})
    ELSE 0

\* 1 when the contact's company contains the job's company, both lower-cased.
CompanyMatch(c, j) ==
    IF HasText(c.company) /\ Contains(Lower(j.company_name), Lower(c.company.s))
    THEN 1 ELSE 0

\* x * n in double arithmetic, n a small natural number.
FTimes(x, n) == RoundToDouble(Carry(x.hi * n, x.lo * n))

\* min(1.0, 0.5*a + 0.2*n + 0.3*c), evaluated in double arithmetic.
ClosedForm(a, n, c) ==
    FMin(Float_1_0,
         FAdd(FAdd(FTimes(Float_0_5, a), FTimes(Float_0_2, n)), FTimes(Float_0_3, c)))

\* x with y added n times, one double addition after the other.
RECURSIVE AddedTimes(_, _, _)
AddedTimes(x, y, n) == IF n = 0 THEN x ELSE AddedTimes(FAdd(x, y), y, n - 1)

\* min(s, 1.0) for the sum s that starts at 0.0 and has 0.5 added a times,
\* then 0.2 added n times, then 0.3 added c times.
AddedInOrder(a, n, c) ==
    FMin(AddedTimes(AddedTimes(AddedTimes(Float_0_0, Float_0_5, a), Float_0_2, n),
                    Float_0_3, c),
         Float_1_0)

\* Doubles that are not negative and differ by at most 2^-53.
WithinOneUlp(x, y) ==
    /\ FLe(x, Carry(y.hi, y.lo + 4))
    /\ FLe(y, Carry(x.hi, x.lo + 4))

\* C17 as stated: the score of every scored contact equals
\* min(1.0, 0.5*[title match] + 0.2*(shared keywords) + 0.3*[company match]).
C17_ScoreEqualsClosedForm ==
    Scored =>
        \A k \in DOMAIN scored :
            scored[k].relevance_score =
                Float(ClosedForm(TitleMatch(scored[k], target_job),
                                 SharedKeywords(scored[k], target_job),
                                 CompanyMatch(scored[k], target_job)))

\* C17, amended: the score of every scored contact is min(s, 1.0) for the
\* sum s that starts at 0.0 and has added to it, in double arithmetic and in
\* this order, 0.5 for a title match, 0.2 for each shared keyword and 0.3 for
\* a company match; it differs from the closed form by at most 2^-53.  A
\* contact whose title (company) is missing or empty gets no title (company)
\* contribution.
C17_ScoreIsSumInOrder ==
    Scored =>
        \A k \in DOMAIN scored :
            LET a == TitleMatch(scored[k], target_job)
                n == SharedKeywords(scored[k], target_job)
                c == CompanyMatch(scored[k], target_job)
            IN  /\ scored[k].relevance_score = Float(AddedInOrder(a, n, c))
                /\ WithinOneUlp(scored[k].relevance_score.x, ClosedForm(a, n, c))
                /\ ~HasText(scored[k].title) => a = 0 /\ n = 0
                /\ ~HasText(scored[k].company) => c = 0

\* A title match with two shared keywords and no company match has been
\* scored 0.5 + 0.2 + 0.2, which is not the double 0.9, and a contact without
\* a title has been scored on its company alone.
C17_Witness ==
    /\ Scored
    /\ \E k \in DOMAIN scored :
          /\ TitleMatch(scored[k], target_job) = 1
          /\ SharedKeywords(scored[k], target_job) = 2
          /\ CompanyMatch(scored[k], target_job) = 0
          /\ scored[k].relevance_score = Float(Double(0, 120795955, 53687088))
          /\ ClosedForm(1, 2, 0) = Double(0, 120795955, 53687092)
    /\ \E k \in DOMAIN scored :
          /\ scored[k].title = None
          /\ scored[k].relevance_score = Float(Float_0_3)

\* The job of test_connection_scoring.
IsTestJob(j) == j.job_title = Str_SeniorSoftwareEngineer /\ j.company_name = Str_TechCorp

TitledAt(c, title, company) == c.title = Str(title) /\ c.company = Str(company)

\* C18: for the job "Senior Software Engineer" at "Tech Corp", a contact
\* titled "Senior Software Engineer" at "Tech Corp" is scored strictly higher
\* than one titled "Engineering Manager" at "Tech Corp", which is scored
\* strictly higher than one titled "Marketing Manager" at "Other Corp", whose
\* score is 0.0.
C18_TestOrdering ==
    (Scored /\ IsTestJob(target_job)) =>
        \A x \in DOMAIN scored, y \in DOMAIN scored :
            /\ ( /\ TitledAt(scored[x], Str_SeniorSoftwareEngineer, Str_TechCorp)
                 /\ TitledAt(scored[y], Str_EngineeringManager, Str_TechCorp) ) =>
                    FLess(scored[y].relevance_score.x, scored[x].relevance_score.x)
            /\ ( /\ TitledAt(scored[x], Str_EngineeringManager, Str_TechCorp)
                 /\ TitledAt(scored[y], Str_MarketingManager, Str_OtherCorp) ) =>
                    /\ FLess(scored[y].relevance_score.x, scored[x].relevance_score.x)
                    /\ scored[y].relevance_score = Float(Float_0_0)

\* The three contacts of the test have been scored against its job, in the
\* order of the test.
C18_Witness ==
    /\ sc_pc = "scored"
    /\ IsTestJob(target_job)
    /\ Len(scored) = 3
    /\ TitledAt(scored[1], Str_SeniorSoftwareEngineer, Str_TechCorp)
    /\ TitledAt(scored[2], Str_EngineeringManager, Str_TechCorp)
    /\ TitledAt(scored[3], Str_MarketingManager, Str_OtherCorp)
    /\ scored[1].relevance_score = Float(Float_1_0)
    /\ scored[2].relevance_score = Float(Float_0_5)
    /\ scored[3].relevance_score = Float(Float_0_0)

\* A score in [0.0, 1.0].
InUnitInterval(v) ==
    /\ v.t = "float"
    /\ ~FLess(v.x, Float_0_0)
    /\ ~FLess(Float_1_0, v.x)

\* C19: after _score_connections every contact's relevance_score lies in
\* [0.0, 1.0], whatever it carried before, and so does the score of every
\* contact find_connections_enhanced returns.
C19_ScoreInUnitInterval ==
    /\ Scored => \A k \in DOMAIN scored : InUnitInterval(scored[k].relevance_score)
    /\ sc_pc = "found" => \A k \in DOMAIN found : InUnitInterval(found[k].relevance_score)

\* find_connections_enhanced has returned, ranked, a contact whose
\* contributions add up to more than 1.0 and who carried -1.0 before, and one
\* who carried 7.5 before.
C19_Witness ==
    /\ sc_pc = "found"
    /\ target_job.job_title = Str_SeniorLeadEngineer
    /\ Len(found) = 2
    /\ found[1].name = <<"R","a","j">>
    /\ found[1].relevance_score = Float(Float_1_0)
    /\ found[2].name = <<"A","n","n">>
    /\ InUnitInterval(found[2].relevance_score)

\* The contact with its relevance_score left out.
WithoutScore(c) == [c EXCEPT !.relevance_score = None]

\* C20: a call of _score_connections returns the list it was given, with the
\* same contacts in the same order and number, each changed in its
\* relevance_score at most, and leaves the target job as it was.
C20_ScorerFrame ==
    [][ (sc_pc \in {"start", "exiting"} /\ sc_pc' \in {"scored", "found"}) =>
            LET given == IF sc_pc = "start" THEN connections
                         ELSE connections \o linkedin_connections
            IN  /\ scored' = connections'
                /\ Len(scored') = Len(given)
                /\ \A k \in DOMAIN given :
                      WithoutScore(scored'[k]) = WithoutScore(given[k])
                /\ target_job' = target_job ]_vars

\* A contact scored 0.0 has been returned ahead of one scored 1.0: nothing
\* was dropped and nothing was moved.
C20_Witness ==
    /\ sc_pc = "scored"
    /\ Len(scored) = 2
    /\ scored[1].name = <<"B","o","b"," ","W","i","l","s","o","n">>
    /\ scored[1].relevance_score = Float(Float_0_0)
    /\ scored[2].name = <<"J","o","h","n"," ","D","o","e">>
    /\ scored[2].relevance_score = Float(Float_1_0)

-----------------------------------------------------------------------------
(* Ranking claim, checked under SpecScorer                                 *)

\* How often the contact c stands in the list.
Occurrences(list, c) == Cardinality({p \in DOMAIN list : list[p] = c})

\* C21: find_connections_enhanced returns the scored contacts sorted by
\* non-increasing relevance_score and cut to at most 20: what it returns are
\* contacts of the scored list, the first 20 or all of them; no contact left
\* out has a score strictly greater than a returned one; and contacts of
\* equal score stand in the order in which they were discovered.
C21_RankedAndTruncated ==
    sc_pc = "found" =>
        /\ Len(found) = IF Len(scored) < 20 THEN Len(scored) ELSE 20
        /\ \A k \in DOMAIN found :
              /\ Occurrences(found, found[k]) <= Occurrences(scored, found[k])
              /\ found[k].relevance_score.t = "float"
        /\ \A x \in DOMAIN found, y \in DOMAIN found :
              x < y => ~FLess(found[x].relevance_score.x, found[y].relevance_score.x)
        /\ \A p \in DOMAIN scored :
              Occurrences(found, scored[p]) < Occurrences(scored, scored[p]) =>
                  \A k \in DOMAIN found :
                      ~FLess(found[k].relevance_score.x, scored[p].relevance_score.x)
        /\ \A x \in DOMAIN found, y \in DOMAIN found :
              (x < y /\ found[x].relevance_score = found[y].relevance_score) =>
                  \E p \in DOMAIN scored, q \in DOMAIN scored :
                      /\ p < q
                      /\ scored[p] = found[x]
                      /\ scored[q] = found[y]
                      /\ (Occurrences(scored, found[x]) = 1 /\ Occurrences(scored, found[y]) = 1)
                            => \A r \in DOMAIN scored : scored[r] = found[y] => r > p

\* Twenty-two contacts of distinct names were discovered and scored against
\* the test's job; twenty are returned, two scored 0.0 are left out, and
\* contacts of equal score are among the returned.
C21_Witness ==
    /\ sc_pc = "found"
    /\ IsTestJob(target_job)
    /\ Len(scored) = 22
    /\ Len(found) = 20
    /\ \A p \in DOMAIN scored : Occurrences(scored, scored[p]) = 1
    /\ Cardinality({p \in DOMAIN scored :
                       /\ Occurrences(found, scored[p]) = 0
                       /\ scored[p].relevance_score = Float(Float_0_0)}) = 2
    /\ found[1].relevance_score = found[2].relevance_score
    /\ ~FLe(found[1].relevance_score.x, found[20].relevance_score.x)

-----------------------------------------------------------------------------
(* URL resolution claim, checked under SpecResolver                        *)

\* The url names its scheme: it begins with "http://" or "https://".
AbsoluteUrl(u) ==
    \/ StartsWith(u, Str_http \o <<":","/","/">>)
    \/ StartsWith(u, Str_https_colon \o <<"/","/">>)

\* b without its trailing slashes, said without the resolver's own words.
StrippedBase(b) ==
    CHOOSE p \in {SubSeq(b, 1, k) : k \in 0..Len(b)} :
        /\ (p = <<>> \/ p[Len(p)] # "/")
        /\ \A j \in (Len(p) + 1)..Len(b) : b[j] = "/"

\* C22: _resolve_url returns an absolute URL unchanged for any base; puts
\* "https:" ahead of a protocol-relative URL; puts the base without its
\* trailing slashes ahead of a root-relative URL; and joins any other
\* relative URL to the stripped base with exactly one "/".
C22_ResolvedAsSpecified ==
    resolved.t = "str" =>
        IF AbsoluteUrl(url) THEN resolved.s = url
        ELSE IF StartsWith(url, <<"/","/">>) THEN resolved.s = Str_https_colon \o url
        ELSE IF StartsWith(url, <<"/">>) THEN resolved.s = StrippedBase(base) \o url
        ELSE resolved.s = StrippedBase(base) \o <<"/">> \o url

-----------------------------------------------------------------------------
(* Scheduling claims, checked under Spec                                   *)

\* The call search_job_board of source n has begun and has not resolved.
InFlight(n) == task[n].pc \in {"entering", "crawling", "fallback", "exiting"}

StealthNames == {stealth_boards[k].name : k \in DOMAIN stealth_boards}

RegularNames == {regular_boards[k].name : k \in DOMAIN regular_boards}

\* At no time are two stealth sources in flight, or a stealth source
\* together with a regular one.
StealthAlone ==
    \A n \in StealthNames : InFlight(n) =>
        \A other \in DOMAIN task \ {n} : ~InFlight(other)

\* C23: stealth sources are processed strictly sequentially: never two of
\* them in flight, never one in flight together with a batched regular
\* source, and the stealth loop comes to its next source only when the
\* previous one has completed and the delay between sources has elapsed.
C23_StealthSequentialWithDelay ==
    /\ []StealthAlone
    /\ [][(pc' = "stealth" /\ stealth_i >= 1 /\ stealth_i' = stealth_i + 1
                /\ stealth_i' <= Len(stealth_boards))
            => /\ pc = "stealth_sleep"
               /\ ~InFlight(stealth_boards[stealth_i].name)]_vars

\* The call of source n has resolved: it returned or raised.
Resolved(n) == task[n].pc \in {"returned", "raised"}

\* The regular sources whose call has begun, now or earlier.
Dispatched == {n \in RegularNames : task[n].pc # "idle"}

\* The regular sources whose call begins with this step.
NewlyDispatched == {n \in RegularNames : task[n].pc = "idle" /\ task'[n].pc # "idle"}

\* C24: regular sources are dispatched in consecutive batches of
\* max_parallel sources, the last batch possibly smaller: a call that has
\* begun never begins again and at return every regular source has been
\* called; at most max_parallel regular sources are in flight; a batch is
\* dispatched only when every source dispatched before it has resolved and,
\* after an earlier batch, only out of the pause; and the pause is taken
\* after a batch exactly when sources are left to dispatch.
C24_BatchingProtocol ==
    /\ [](Cardinality({n \in RegularNames : InFlight(n)}) <= max_parallel)
    /\ [](pc = "done" => \A n \in RegularNames : Resolved(n))
    /\ [][\A n \in RegularNames : task[n].pc # "idle" => task'[n].pc # "idle"]_vars
    /\ [][NewlyDispatched # {} =>
            /\ \A n \in Dispatched : Resolved(n)
            /\ NewlyDispatched =
                  {regular_boards[k].name :
                      k \in {j \in DOMAIN regular_boards :
                               /\ j > Cardinality(Dispatched)
                               /\ j <= Cardinality(Dispatched) + max_parallel}}
            /\ \A n \in NewlyDispatched : task'[n].pc = "entering"]_vars
    /\ [][(pc' = "batch" /\ pc # "batch" /\ Dispatched # {} /\ Dispatched # RegularNames)
            => pc = "batch_sleep"]_vars
    /\ [][(pc' = "batch_sleep" /\ pc # "batch_sleep") =>
            /\ Dispatched # RegularNames
            /\ \A n \in Dispatched : Resolved(n)]_vars
    /\ [][(pc = "gather" /\ pc' # "gather" /\ Dispatched = RegularNames)
            => pc' = "batch"]_vars

\* Three regular sources with max_parallel 2: the first two have resolved,
\* the pause is over and the third, a batch of its own, is in flight.
C24_Witness ==
    /\ Len(regular_boards) = 3
    /\ max_parallel = 2
    /\ pc = "gather"
    /\ Resolved(regular_boards[1].name)
    /\ Resolved(regular_boards[2].name)
    /\ InFlight(regular_boards[3].name)

\* The lists the calls of the regular sources at positions lo..hi returned,
\* one after the other in the order of the positions; a call that raised
\* gives none.
RECURSIVE ReturnedInOrder(_, _)
ReturnedInOrder(lo, hi) ==
    IF hi < lo THEN <<>>
    ELSE ReturnedInOrder(lo, hi - 1)
            \o (IF task[regular_boards[hi].name].pc = "returned"
                THEN task[regular_boards[hi].name].jobs
                ELSE <<>>)

\* The positions of the regular sources past the batches already collected
\* whose call has begun: at the joint await, the batch.
Awaited == {k \in DOMAIN regular_boards : batch_i < k /\ task[regular_boards[k].name].pc # "idle"}

\* C25: all_jobs is written only by the control flow of
\* search_all_job_boards, after the await of a stealth call or the joint
\* await of a batch and when no task is running; a step of a running task
\* writes the record of that task alone; and the records of a batch enter
\* all_jobs in the order of the batch, whichever task completed first.
C25_SingleWriterMerge ==
    /\ [][all_jobs' # all_jobs =>
            /\ pc \in {"gather", "stealth_await"}
            /\ task' = task
            /\ \A n \in DOMAIN task : ~InFlight(n)
            /\ pc = "gather" =>
                  all_jobs' = all_jobs \o ReturnedInOrder(SetMin(Awaited), SetMax(Awaited))]_vars
    /\ [][task' # task =>
            /\ all_jobs' = all_jobs
            /\ returned' = returned
            /\ (\E n \in DOMAIN task : InFlight(n)) =>
                  \E n \in DOMAIN task :
                      /\ InFlight(n)
                      /\ \A other \in DOMAIN task \ {n} : task'[other] = task[other]]_vars

\* Two regular sources of one batch both returned records, and the records
\* of the first source stand ahead of those of the second in all_jobs.
C25_Witness ==
    /\ Len(regular_boards) >= 2
    /\ max_parallel = 2
    /\ pc \in {"batch", "batch_sleep"}
    /\ task[regular_boards[1].name].pc = "returned"
    /\ task[regular_boards[2].name].pc = "returned"
    /\ task[regular_boards[1].name].jobs # <<>>
    /\ task[regular_boards[2].name].jobs # <<>>
    /\ Len(all_jobs) >= 2
    /\ all_jobs[1].source_site = Str(regular_boards[1].chars)
    /\ all_jobs[Len(all_jobs)].source_site = Str(regular_boards[2].chars)
    /\ \A n \in DOMAIN task : ~InFlight(n)

\* What lines 276-277 assign to a record of the source n.
StampOf(n) ==
    [source_site |-> NameStr(n),
     source_url |-> Str(search_url(BoardNamed(n), keywords, search_location))]

\* The record carries a stamp: both its source fields are the stamp's.
Carries(r, stamp) ==
    /\ r.source_site = stamp.source_site
    /\ r.source_url = stamp.source_url

\* The record carries the name and the query url of the source n.
StampedBy(r, n) == Carries(r, StampOf(n))

\* The step runs the loop of lines 275-277 for the call of source n, over
\* at least one record: the call goes from its closed session to its return
\* with its records stamped.
Stamping(n) ==
    /\ task[n].pc = "exiting"
    /\ task'[n].pc = "returned"
    /\ task[n].jobs # <<>>
    /\ task'[n].jobs = Stamp(task[n].jobs, BoardNamed(n), keywords, search_location)

\* C26 as stated: within a batch, source name and url are stamped onto
\* records after all tasks of the batch have resolved: a step that stamps
\* the records of a source of the batch is taken only when every other
\* source of the batch has resolved.
C26_StampedAfterBatchResolved ==
    [][\A k \in BatchPositions :
          Stamping(regular_boards[k].name) =>
              \A j \in BatchPositions \ {k} : Resolved(regular_boards[j].name)]_vars

\* The position of a regular source in regular_boards.
PositionOf(n) == CHOOSE k \in DOMAIN regular_boards : regular_boards[k].name = n

\* The object d of an answer of tier 1 from which a record like r is made.
ObjectBehind(r, d) ==
    /\ d.t = "dict"
    /\ HasKey(d, "job_title") /\ d.f["job_title"] = Str(r.job_title)
    /\ HasKey(d, "job_description") /\ d.f["job_description"] = Str(r.job_description)

\* The source fields of the record are what its extraction gave them: None,
\* or what the object it was made from says.
AsExtracted(r) ==
    \/ r.source_site = NoSource /\ r.source_url = NoSource
    \/ \E o \in Tier1Outcomes : \E i \in DOMAIN o.content.items :
          LET d == o.content.items[i]
          IN  /\ ObjectBehind(r, d)
              /\ r.source_site = Get(d, "source_site", NoSource)
              /\ r.source_url = Get(d, "source_url", NoSource)

\* C26, amended: each call stamps its own records when it returns, lines
\* 274-279, whatever the other tasks of the batch are doing: a call comes
\* to its return only from its closed session and with its records
\* stamped; the records of a call in flight carry what their extraction
\* gave them, those of a call that returned carry the name and the query
\* url of its source; and the records of regular sources stand in all_jobs
\* stamped and in the order of submission.
C26_StampedOnReturn ==
    /\ [][\A n \in DOMAIN task :
            (task[n].pc # "returned" /\ task'[n].pc = "returned") =>
                /\ task[n].pc = "exiting"
                /\ task'[n].jobs = Stamp(task[n].jobs, BoardNamed(n),
                                         keywords, search_location)]_vars
    /\ [](\A n \in DOMAIN task :
              LET stamp == StampOf(n)
              IN  /\ \A r \in Range(task[n].jobs) :
                        IF task[n].pc = "returned"
                        THEN Carries(r, stamp)
                        ELSE AsExtracted(r)
                  /\ \A r \in Range(all_jobs) :
                        ExtractedFrom(r) = n => Carries(r, stamp))
    /\ [](\A x \in DOMAIN all_jobs, y \in DOMAIN all_jobs :
              (/\ x < y
               /\ SiteOf(all_jobs[x]) \in RegularNames
               /\ SiteOf(all_jobs[y]) \in RegularNames)
                  => PositionOf(SiteOf(all_jobs[x])) <= PositionOf(SiteOf(all_jobs[y])))

\* The second source of a batch has returned and its records are stamped
\* while the first, LinkedIn, is still in flight with the two records of
\* its extraction: one carries the source that its object named, the other
\* carries what its object named too, which is LinkedIn and LinkedIn's
\* query url, before lines 275-277 have run for it.
C26_Witness ==
    /\ pc = "gather"
    /\ Len(regular_boards) >= 2
    /\ task[regular_boards[2].name].pc = "returned"
    /\ task[regular_boards[2].name].jobs # <<>>
    /\ \A r \in Range(task[regular_boards[2].name].jobs) :
          StampedBy(r, regular_boards[2].name)
    /\ regular_boards[1].name = "LinkedIn"
    /\ task["LinkedIn"].pc = "exiting"
    /\ Len(task["LinkedIn"].jobs) = 2
    /\ task["LinkedIn"].jobs[1].source_site = Str(Str_Elsewhere)
    /\ ~StampedBy(task["LinkedIn"].jobs[1], "LinkedIn")
    /\ task["LinkedIn"].jobs[2].job_description = <<"o","w","n">>
    /\ StampedBy(task["LinkedIn"].jobs[2], "LinkedIn")

\* The AsyncWebCrawler session of source n is open: __aenter__ is over and
\* __aexit__ is not.
SessionLive(n) == task[n].pc \in {"crawling", "fallback", "exiting"}

\* C27 as stated: the rendering session is acquired and released once per
\* batch scope, so the sources of a batch have one session between them and
\* at no time are two sessions live.
C27_OneSessionPerBatch ==
    Cardinality({n \in DOMAIN task : SessionLive(n)}) <= 1

\* C27, amended: the session is acquired and released once per source call,
\* inside search_job_board: a session opens only as the first step of a call
\* and closes only through __aexit__, also after an exception of tier 1 or
\* tier 2; a call that has resolved and a search that has returned or raised
\* hold no live session; and the sessions live at one time belong to the
\* sources of one batch, or to one stealth source.
C27_SessionPerSourceCall ==
    /\ []((pc \in {"done", "raised"}) => \A n \in DOMAIN task : ~SessionLive(n))
    /\ [](\A n \in DOMAIN task : SessionLive(n) =>
              \/ /\ pc = "stealth_await"
                 /\ n = stealth_boards[stealth_i].name
                 /\ \A m \in DOMAIN task \ {n} : ~SessionLive(m)
              \/ /\ pc = "gather"
                 /\ \E k \in BatchPositions : regular_boards[k].name = n)
    /\ [][\A n \in DOMAIN task :
            /\ (SessionLive(n)' /\ ~SessionLive(n)) => task[n].pc = "entering"
            /\ (SessionLive(n) /\ ~SessionLive(n)') =>
                  (task[n].pc = "exiting" /\ Resolved(n)')
            /\ (task[n].pc \in {"crawling", "fallback"} /\ task'[n] # task[n]) =>
                  SessionLive(n)']_vars

\* The two sources of a batch each hold a live session of their own, the
\* first after tier 1, the second waiting for it.
C27_Witness ==
    /\ pc = "gather"
    /\ Len(regular_boards) >= 2
    /\ max_parallel = 2
    /\ task[regular_boards[1].name].pc = "exiting"
    /\ task[regular_boards[1].name].tier1 = 1
    /\ task[regular_boards[2].name].pc = "crawling"

-----------------------------------------------------------------------------
(* Markdown tier claim, checked under SpecMarkdown                         *)

\* The lines of the text, trimmed, without the empty ones.
TrimmedLines ==
    LET pieces == split_newline(markdown_content)
    IN  SelectSeq([k \in DOMAIN pieces |-> Strip(pieces[k])], LAMBDA l : l # <<>>)

\* The positions of the lines that contain a role keyword, in any case.
KeywordLines(lines) ==
    {p \in DOMAIN lines :
        \E k \in DOMAIN role_keywords : Contains(role_keywords[k], Lower(lines[p]))}

\* The end of the block the keyword line p opens: the next keyword line, or
\* the position past the last line.
BlockEnd(lines, titles, p) == SetMin({q \in titles : q > p} \cup {Len(lines) + 1})

\* The line begins with the letters of the word, in the case of the word.
BeginsWith(l, word) ==
    /\ Len(l) >= Len(word)
    /\ \A k \in DOMAIN word : l[k] = word[k]

\* The lines of the block of p that may be its company.
CompanyLines(lines, titles, p) ==
    {q \in (p + 1)..(BlockEnd(lines, titles, p) - 1) :
        /\ ~BeginsWith(lines[q], <<"h","t","t","p">>)
        /\ ~BeginsWith(lines[q], <<"w","w","w">>)
        /\ ~BeginsWith(lines[q], <<"a","p","p","l","y">>)}

\* C28: every line with a role keyword opens a block with itself as title
\* and closes the block before it; the company of a block is its first line
\* after the title that does not start with "http", "www" or "apply"; the
\* blocks with title and company, the last block included, are emitted and
\* no others, in the order of their title lines, so never more records
\* than keyword lines.
C28_MarkdownBlocks ==
    md_pc = "extracted" =>
        LET lines == TrimmedLines
            titles == KeywordLines(lines)
            complete == {p \in titles : CompanyLines(lines, titles, p) # {}}
        IN  /\ Len(markdown_jobs) = Cardinality(complete)
            /\ Len(markdown_jobs) <= Cardinality(titles)
            /\ \A p \in complete :
                  LET r == Cardinality({q \in complete : q <= p})
                  IN  /\ markdown_jobs[r].job_title = lines[p]
                      /\ markdown_jobs[r].company_name =
                            lines[SetMin(CompanyLines(lines, titles, p))]

\* Four lines gave two records: a padded title with its company, closed by
\* a title in capitals whose company is the line "Apply", flushed at the end
\* of the input.
C28_Witness ==
    /\ md_pc = "extracted"
    /\ Len(TrimmedLines) = 4
    /\ KeywordLines(TrimmedLines) = {1, 3}
    /\ Len(markdown_jobs) = 2
    /\ markdown_jobs[1].job_title = <<"Q","A"," ","A","n","a","l","y","s","t">>
    /\ markdown_jobs[1].company_name = <<"A","c","m","e">>
    /\ markdown_jobs[2].job_title = <<"M","A","N","A","G","E","R">>
    /\ markdown_jobs[2].company_name = <<"A","p","p","l","y">>

-----------------------------------------------------------------------------
(* Pipeline output claim, checked under SpecPipeline                       *)

\* The entries of the log of the record's source whose jobs hold the record
\* as it was extracted.
OriginOf(r) ==
    {e \in Range(log[SiteOf(r)]) : \E k \in DOMAIN e.jobs : e.jobs[k].oid = r.oid}

\* The record was made from the object d of a JSON answer: title and
\* company are those of d, the location is that of d or, when d has none or
\* null, "Not specified".
MadeFrom(r, d) ==
    /\ d.t = "dict"
    /\ HasKey(d, "job_title") /\ d.f["job_title"] = Str(r.job_title)
    /\ HasKey(d, "company_name") /\ d.f["company_name"] = Str(r.company_name)
    /\ IF HasKey(d, "location") /\ d.f["location"] # None
       THEN d.f["location"] = Str(r.location)
       ELSE r.location = NotSpecified

\* C29: every record search_all_job_boards returns has a title and a
\* company that are not empty once trimmed, and a location that is a
\* string: for a record of the schema-guided tier the location of its
\* object, "Not specified" when that was null or absent; the literal of the
\* tier for a record of the markdown or of the keyword tier.
C29_PipelineOutput ==
    pc = "done" =>
        \A r \in Range(returned) :
            /\ Strip(r.job_title) # <<>>
            /\ Strip(r.company_name) # <<>>
            /\ OriginOf(r) # {}
            /\ \A e \in OriginOf(r) :
                  IF e.tier = 2 THEN r.location = NotSpecified
                  ELSE IF e.tier3
                  THEN r.location = <<"L","o","c","a","t","i","o","n"," ","n","o","t"," ",
                                      "s","p","e","c","i","f","i","e","d">>
                  ELSE \E i \in DOMAIN e.answer.content.items :
                          MadeFrom(r, e.answer.content.items[i])

\* The search returned records of all three tiers: one of the markdown
\* tier, one of the keyword tier, and from a JSON answer the record of an
\* object with a null location, now "Not specified".
C29_Witness ==
    /\ pc = "done"
    /\ \E a \in Range(returned), b \in Range(returned), c \in Range(returned) :
          /\ \E e \in OriginOf(a) : e.tier = 2
          /\ \E e \in OriginOf(b) : e.tier = 1 /\ e.tier3
          /\ \E e \in OriginOf(c) :
                /\ e.tier = 1 /\ ~e.tier3
                /\ ItemB \in Range(e.answer.content.items)
          /\ c.job_title = Str_QA
          /\ c.location = NotSpecified

-----------------------------------------------------------------------------
(* Termination claim, checked under SpecFair                               *)

\* C30 as stated: with max_parallel at least 1 the search eventually
\* returns, and it returns having run tier 1 exactly once for every
\* configured source and tier 2 at most once per source.
C30_ReturnsWithTier1OncePerSource ==
    /\ (max_parallel >= 1) => <>(pc = "done")
    /\ [](pc = "done" =>
            \A n \in DOMAIN task : task[n].tier1 = 1 /\ task[n].tier2 <= 1)

\* C30, amended: with max_parallel at least 1 the search eventually
\* returns; every call has then resolved; no tier runs twice for a source
\* and no call begins again; tier 2 runs only after tier 1; and tier 1 has
\* run once for every source except those whose session did not open,
\* whose call raised without any tier and without records.
C30_ReturnsWithEachTierAtMostOnce ==
    /\ (max_parallel >= 1) => <>(pc = "done")
    /\ [](\A n \in DOMAIN task :
            /\ task[n].tier1 <= 1
            /\ task[n].tier2 <= task[n].tier1
            /\ task[n].pc \in {"fallback", "exiting", "returned"} => task[n].tier1 = 1)
    /\ [](pc = "done" =>
            \A n \in DOMAIN task :
                /\ Resolved(n)
                /\ task[n].tier1 = 0 => (task[n].pc = "raised" /\ task[n].jobs = <<>>))
    /\ [][\A n \in DOMAIN task :
            /\ task[n].pc # "idle" => task'[n].pc # "idle"
            /\ Resolved(n) => task'[n] = task[n]
            /\ task'[n].tier1 >= task[n].tier1
            /\ task'[n].tier2 >= task[n].tier2]_vars

\* The search returned with max_parallel 2: the session of the first
\* source did not open and no tier ran for it, the second, a stealth
\* source, went through tier 1 and tier 2 once each.
C30_Witness ==
    /\ pc = "done"
    /\ max_parallel = 2
    /\ Len(job_boards) >= 2
    /\ task[job_boards[1].name].pc = "raised"
    /\ task[job_boards[1].name].tier1 = 0
    /\ task[job_boards[2].name].pc = "returned"
    /\ task[job_boards[2].name].tier1 = 1
    /\ task[job_boards[2].name].tier2 = 1

=============================================================================
